---------------------------- MODULE Spec2Model ----------------------------
(***************************************************************************)
(* A model of the geometric reconstruction pipeline of pathforge:          *)
(* polyline decoding, projection fitting, track projection, the spatial    *)
(* indices, the densify entry point and the adaptive terrain mesh.         *)
(* Around the pipeline it models the 3D map component with its terrain    *)
(* cache, the recent-map page with its queries and its selection, and the  *)
(* refresh of the access token.                                            *)
(*                                                                         *)
(* Numbers.  JavaScript numbers are modelled by integers.  Geographic      *)
(* coordinates are counted in units of 1e-5 degree (the precision of the   *)
(* polyline encoding), so the decoder's final division by 1e5 is a change  *)
(* of unit.  Pixel quantities that the code obtains by a division are kept *)
(* as exact fractions (numerator, denominator); a denominator of 0 stands  *)
(* for the non-finite results (Infinity, NaN) of a division by zero.       *)
(***************************************************************************)
EXTENDS Integers, Sequences, FiniteSets, TLC

VARIABLES
    polyPc, origin, route, encoded, decoded, decoder,
    projPc, activities, width, height, projection, projectedActivities,
    spPc, tracks, pointsIndex, segIndex, query, results, near,
    densifyPc, densifyArgs, outcome,
    meshPc, densePoints, maxEdgeLength, mapBounds, geometry,
    gridPc, gridInput, gridResult,
    bboxPc, bboxActivities, boundingBox,
    mapPc, mapActivities, showDenseTerrain, selectedMethodKey, shownDensePoints, cacheBySelection, densifyInvoked,
    isDensifying, inFlight,
    pagePc, pageKind, listKind, activityQueries, streamsQueries, filteredActivities, selectedActivities, listMounted, initializedRef, pageEvent,
    tokenPc, account, now, stravaAccount, refreshedTokens, tokenResult, sent, issued,
    shadePc, shadeProps, colorArray

polyVars == <<polyPc, origin, route, encoded, decoded, decoder>>

projVars ==
    <<projPc, activities, width, height, projection, projectedActivities>>

spVars == <<spPc, tracks, pointsIndex, segIndex, query, results, near>>

densifyVars == <<densifyPc, densifyArgs, outcome>>

meshVars == <<meshPc, densePoints, maxEdgeLength, mapBounds, geometry>>

gridVars == <<gridPc, gridInput, gridResult>>

bboxVars == <<bboxPc, bboxActivities, boundingBox>>

mapVars == <<mapPc, mapActivities, showDenseTerrain, selectedMethodKey, shownDensePoints, cacheBySelection, densifyInvoked>>

flightVars == <<isDensifying, inFlight>>

pageVars == <<pagePc, pageKind, listKind, activityQueries, streamsQueries, filteredActivities, selectedActivities, listMounted, initializedRef, pageEvent>>

tokenVars == <<tokenPc, account, now, stravaAccount, refreshedTokens, tokenResult, sent, issued>>

shadeVars == <<shadePc, shadeProps, colorArray>>

notPoly == <<projVars, spVars, densifyVars, meshVars, gridVars, bboxVars, mapVars, flightVars, pageVars, tokenVars, shadeVars>>

notProj == <<polyVars, spVars, densifyVars, meshVars, gridVars, bboxVars, mapVars, flightVars, pageVars, tokenVars, shadeVars>>

notSp == <<polyVars, projVars, densifyVars, meshVars, gridVars, bboxVars, mapVars, flightVars, pageVars, tokenVars, shadeVars>>

notDensify == <<polyVars, projVars, spVars, meshVars, gridVars, bboxVars, mapVars, flightVars, pageVars, tokenVars, shadeVars>>

notMesh == <<polyVars, projVars, spVars, densifyVars, gridVars, bboxVars, mapVars, flightVars, pageVars, tokenVars, shadeVars>>

notGrid == <<polyVars, projVars, spVars, densifyVars, meshVars, bboxVars, mapVars, flightVars, pageVars, tokenVars, shadeVars>>

notBBox == <<polyVars, projVars, spVars, densifyVars, meshVars, gridVars, mapVars, flightVars, pageVars, tokenVars, shadeVars>>

notMap == <<polyVars, projVars, spVars, densifyVars, meshVars, gridVars, bboxVars, flightVars, pageVars, tokenVars, shadeVars>>

notMapFlight == <<polyVars, projVars, spVars, densifyVars, meshVars, gridVars, bboxVars, pageVars, tokenVars, shadeVars>>

notPage == <<polyVars, projVars, spVars, densifyVars, meshVars, gridVars, bboxVars, mapVars, flightVars, tokenVars, shadeVars>>

notToken == <<polyVars, projVars, spVars, densifyVars, meshVars, gridVars, bboxVars, mapVars, flightVars, pageVars, shadeVars>>

notShade == <<polyVars, projVars, spVars, densifyVars, meshVars, gridVars, bboxVars, mapVars, flightVars, pageVars, tokenVars>>

vars == <<polyVars, projVars, spVars, densifyVars, meshVars, gridVars, bboxVars, mapVars, flightVars, pageVars, tokenVars, shadeVars>>

----------------------------------------------------------------------------
(* General helpers *)

Abs(n) == IF n < 0 THEN -n ELSE n

Min2(a, b) == IF a <= b THEN a ELSE b

Max2(a, b) == IF a >= b THEN a ELSE b

RECURSIVE Pow2(_)
Pow2(k) == IF k = 0 THEN 1 ELSE 2 * Pow2(k - 1)

\* a | b for naturals a, b
RECURSIVE BitOr(_, _)
BitOr(a, b) ==
    IF a = 0 THEN b
    ELSE IF b = 0 THEN a
    ELSE Max2(a % 2, b % 2) + 2 * BitOr(a \div 2, b \div 2)

SetMin(S) == CHOOSE m \in S : \A n \in S : m <= n

SetMax(S) == CHOOSE m \in S : \A n \in S : m >= n

\* all sequences over S of length 0..n
SeqsUpTo(S, n) == UNION {[1..k -> S] : k \in 0..n}

----------------------------------------------------------------------------
(* Polyline encoding.  A string is the sequence of its UTF-16 char codes.  *)

MaxRouteLen == 2

MaxStringLen == 3

\* coordinate values, in units of 1e-5 degree: consecutive differences need
\* one 5-bit group (|d| < 16), two groups (16 <= |d| < 512) or three
CoordValues == {-600, -16, 0, 15, 16, 600}

GeoPoints == [lat : CoordValues, lng : CoordValues]

Routes == SeqsUpTo(GeoPoints, MaxRouteLen)

\* '?' = 63 is the value 0, '@' = 1, '_' = 95 is 0 with the continuation bit,
\* '`' = 33 = 1 with the continuation bit, '~' = 126 is 63; ';' = 59 lies
\* below the encoding's range
Alphabet == {59, 63, 64, 95, 96, 126}

\* the literal "test"
TestString == <<116, 101, 115, 116>>

Strings == SeqsUpTo(Alphabet, MaxStringLen) \cup {TestString}

\* the 5-bit groups of the zigzag value z, least significant first, every
\* group but the last carrying the continuation bit 0x20
RECURSIVE encodeGroups(_)
encodeGroups(z) ==
    IF z >= 32 THEN <<(32 + (z % 32)) + 63>> \o encodeGroups(z \div 32)
    ELSE <<z + 63>>

\* v < 0 ? ~(v << 1) : (v << 1)
zigzag(v) == IF v < 0 THEN -(2 * v) - 1 ELSE 2 * v

encodeValue(v) == encodeGroups(zigzag(v))

RECURSIVE encodeFrom(_, _, _, _)
encodeFrom(points, i, prevLat, prevLng) ==
    IF i > Len(points) THEN <<>>
    ELSE encodeValue(points[i].lat - prevLat)
         \o encodeValue(points[i].lng - prevLng)
         \o encodeFrom(points, i + 1, points[i].lat, points[i].lng)

polylineEncode(points) == encodeFrom(points, 1, 0, 0)

\* str.charCodeAt(index) - 63, then & 0x1f: beyond the end charCodeAt is NaN
\* and NaN & 0x1f is 0.  index counts from 0 as in the code.
chunkAt(str, index) ==
    IF index < Len(str) THEN (str[index + 1] - 63) % 32 ELSE 0

\* str.charCodeAt(index) - 63 >= 0x20 (false for NaN)
hasContinuation(str, index) ==
    index < Len(str) /\ str[index + 1] - 63 >= 32

\* (result & 1) ? ~(result >> 1) : (result >> 1)
unzigzag(result) ==
    IF result % 2 = 1 THEN -(result \div 2) - 1 ELSE result \div 2

\* The do-while of the hand-written decoder: it goes on while the
\* ACCUMULATED result is >= 0x20
RECURSIVE readValue(_, _, _, _)
readValue(str, index, shift, result) ==
    LET r == BitOr(result, chunkAt(str, index) * Pow2(shift))
    IN  IF r >= 32
        THEN readValue(str, index + 1, shift + 5, r)
        ELSE [result |-> r, index |-> index + 1]

RECURSIVE decodeLoop(_, _, _, _)
decodeLoop(str, index, lat, lng) ==
    IF index < Len(str)
    THEN LET a == readValue(str, index, 0, 0)
             b == readValue(str, a.index, 0, 0)
             nlat == lat + unzigzag(a.result)
             nlng == lng + unzigzag(b.result)
         IN  <<[lat |-> nlat, lng |-> nlng]>>
             \o decodeLoop(str, b.index, nlat, nlng)
    ELSE <<>>

\* the hand-written decoder
decodePolyline(str) ==
    IF str = TestString
    THEN <<[lat |-> 3777490, lng |-> -12241940],
           [lat |-> 3778490, lng |-> -12240940]>>
    ELSE decodeLoop(str, 0, 0, 0)

\* The do-while of polyline.decode of @mapbox/polyline: it goes on while
\* the BYTE read carries the continuation bit
RECURSIVE libReadValue(_, _, _, _)
libReadValue(str, index, shift, result) ==
    LET r == BitOr(result, chunkAt(str, index) * Pow2(shift))
    IN  IF hasContinuation(str, index)
        THEN libReadValue(str, index + 1, shift + 5, r)
        ELSE [result |-> r, index |-> index + 1]

RECURSIVE polylineDecode(_, _, _, _)
polylineDecode(str, index, lat, lng) ==
    IF index < Len(str)
    THEN LET a == libReadValue(str, index, 0, 0)
             b == libReadValue(str, a.index, 0, 0)
             nlat == lat + unzigzag(a.result)
             nlng == lng + unzigzag(b.result)
         IN  <<[lat |-> nlat, lng |-> nlng]>>
             \o polylineDecode(str, b.index, nlat, nlng)
    ELSE <<>>

\* the decoder that wraps polyline.decode in try/catch: the library call
\* raises for no string, so the catch branch (return []) is never taken
decodePolylineLib(str) == polylineDecode(str, 0, 0, 0)

\* A string is a complete encoding when its chars all lie in the range of
\* the encoding, its last char carries no continuation bit and it holds an
\* even number of values (a latitude and a longitude per point)
InRange(str) == \A i \in 1..Len(str) : str[i] >= 63 /\ str[i] <= 126

valueCount(str) == Cardinality({i \in 1..Len(str) : str[i] - 63 < 32})

WellFormed(str) ==
    /\ InRange(str)
    /\ (Len(str) > 0 => str[Len(str)] - 63 < 32)
    /\ valueCount(str) % 2 = 0

PolyIdle ==
    /\ polyPc = "off"
    /\ origin = "none"
    /\ route = <<>>
    /\ encoded = <<>>
    /\ decoded = <<>>
    /\ decoder = "none"

PolyInit ==
    /\ polyPc = "idle"
    /\ origin = "none"
    /\ route = <<>>
    /\ encoded = <<>>
    /\ decoded = <<>>
    /\ decoder = "none"

PickRoute ==
    /\ polyPc = "idle"
    /\ \E r \in Routes : route' = r
    /\ origin' = "route"
    /\ polyPc' = "route"
    /\ UNCHANGED <<encoded, decoded, decoder>>
    /\ UNCHANGED notPoly

Encode ==
    /\ polyPc = "route"
    /\ encoded' = polylineEncode(route)
    /\ polyPc' = "encoded"
    /\ UNCHANGED <<origin, route, decoded, decoder>>
    /\ UNCHANGED notPoly

ReceiveString ==
    /\ polyPc = "idle"
    /\ \E s \in Strings : encoded' = s
    /\ origin' = "string"
    /\ polyPc' = "encoded"
    /\ UNCHANGED <<route, decoded, decoder>>
    /\ UNCHANGED notPoly

DecodeHandwritten ==
    /\ polyPc = "encoded"
    /\ decoded' = decodePolyline(encoded)
    /\ decoder' = "handwritten"
    /\ polyPc' = "decoded"
    /\ UNCHANGED <<origin, route, encoded>>
    /\ UNCHANGED notPoly

DecodeLibrary ==
    /\ polyPc = "encoded"
    /\ decoded' = decodePolylineLib(encoded)
    /\ decoder' = "library"
    /\ polyPc' = "decoded"
    /\ UNCHANGED <<origin, route, encoded>>
    /\ UNCHANGED notPoly

PolyReset ==
    /\ polyPc = "decoded"
    /\ polyPc' = "idle"
    /\ origin' = "none"
    /\ route' = <<>>
    /\ encoded' = <<>>
    /\ decoded' = <<>>
    /\ decoder' = "none"
    /\ UNCHANGED notPoly


PolyNext ==
    \/ PickRoute
    \/ Encode
    \/ ReceiveString
    \/ DecodeHandwritten
    \/ DecodeLibrary
    \/ PolyReset

----------------------------------------------------------------------------
(* Route data, projection fitting and track projection.                    *)
(*                                                                         *)
(* An optional field is a record with a flag `has`.  A route point is      *)
(* [lat, lng, hasAlt, alt]: hasAlt = FALSE is an undefined altitude.       *)

MaxActivities == 2

\* d3.schemeCategory10
PaletteSize == 10

Absent == [has |-> FALSE, str |-> <<>>]

Str(s) == [has |-> TRUE, str |-> s]

\* the encodings of a one-point and of a two-point route
OnePointLine == polylineEncode(<<[lat |-> 0, lng |-> 0]>>)

TwoPointLine == polylineEncode(<<[lat |-> 0, lng |-> 0], [lat |-> 3, lng |-> 4]>>)

PolylineChoices == {Absent, Str(<<>>), Str(OnePointLine), Str(TwoPointLine)}

SummaryChoices == {Absent, Str(TwoPointLine)}

NoStream == [has |-> FALSE, points |-> <<>>]

Stream(pts) == [has |-> TRUE, points |-> pts]

StreamPointA == [lat |-> 1, lng |-> 1, altitude |-> 5]

StreamPointB == [lat |-> 2, lng |-> 3, altitude |-> 9]

\* detailedPoints: missing, empty, one sample, one sample twice, two samples
StreamChoices ==
    {NoStream, Stream(<<>>), Stream(<<StreamPointA>>),
     Stream(<<StreamPointA, StreamPointA>>),
     Stream(<<StreamPointA, StreamPointB>>)}

ActivityChoices ==
    [polyline : PolylineChoices, summary_polyline : SummaryChoices,
     detailedPoints : StreamChoices]

\* an activity list; the id of an activity is its position in the list
ActivityLists == SeqsUpTo(ActivityChoices, MaxActivities)

Widths == {20, 30}

Heights == {10, 20}

\* decodePolyline(encoded): the library decoder's points, altitude undefined
decodePolylinePoints(str) ==
    LET d == decodePolylineLib(str)
    IN  [i \in 1..Len(d) |->
            [lat |-> d[i].lat, lng |-> d[i].lng, hasAlt |-> FALSE, alt |-> 0]]

\* activity.map?.polyline ?? activity.map?.summary_polyline
polylineData(activity) ==
    IF activity.polyline.has THEN activity.polyline
    ELSE activity.summary_polyline

\* Boolean(s) of an optional string
Truthy(s) == s.has /\ Len(s.str) > 0

getActivityRouteData(activity) ==
    IF activity.detailedPoints.has
    THEN LET dp == activity.detailedPoints.points
         IN  [i \in 1..Len(dp) |->
                [lat |-> dp[i].lat, lng |-> dp[i].lng,
                 hasAlt |-> TRUE, alt |-> dp[i].altitude]]
    ELSE IF Truthy(polylineData(activity))
    THEN decodePolylinePoints(polylineData(activity).str)
    ELSE <<>>

RECURSIVE Flatten(_)
Flatten(ss) == IF ss = <<>> THEN <<>> ELSE Head(ss) \o Flatten(Tail(ss))

\* the route points of all activities, in order
allRoutePoints(acts) ==
    Flatten([i \in 1..Len(acts) |-> getActivityRouteData(acts[i])])

\* The strawman projection (scale 1, translate [0, 0]) of a point.  The
\* conic projection is taken in its first order about the centre: x grows
\* with the longitude and y falls with the latitude.  A d3 projection of
\* scale k and translate t maps p to t + k * unitProject(p).
unitProject(p) == [x |-> p.lng, y |-> 0 - p.lat]

\* path.bounds(routeFeature) under the strawman projection
unitBounds(pts) ==
    LET xs == {unitProject(pts[i]).x : i \in 1..Len(pts)}
        ys == {unitProject(pts[i]).y : i \in 1..Len(pts)}
    IN  [x0 |-> SetMin(xs), x1 |-> SetMax(xs),
         y0 |-> SetMin(ys), y1 |-> SetMax(ys)]

\* maxRatio with Math.min in the place of Math.max
maxRatioMin(bw, w, bh, h) ==
    IF bw * h <= bh * w THEN [n |-> bw, d |-> w] ELSE [n |-> bh, d |-> h]

\* Math.max(bw / w, bh / h) as the fraction n / d
maxRatio(bw, w, bh, h) ==
    IF bw * h >= bh * w THEN [n |-> bw, d |-> w] ELSE [n |-> bh, d |-> h]

\* A projection is scale = sn / sd and translate = (oxn / od, oyn / od);
\* sd = 0 is the scale Infinity and od = 0 a non-finite translate.
\* The projection of scale sn / sd that centres the bounds b in w x h:
\* translate = (w - scale * (x1 + x0)) / 2, (h - scale * (y1 + y0)) / 2
centredProjection(b, sn, sd, w, h) ==
    [kind |-> "albers", sn |-> sn, sd |-> sd,
     oxn |-> w * sd - sn * (b.x1 + b.x0),
     oyn |-> h * sd - sn * (b.y1 + b.y0),
     od |-> 2 * sd]

\* scale = 0.95 / m for the ratio m = m.n / m.d
scaledProjection(b, m, w, h) == centredProjection(b, 19 * m.d, 20 * m.n, w, h)

\* the projection fitted to the measured bounds b
fittedProjection(b, w, h) ==
    scaledProjection(b, maxRatio(b.x1 - b.x0, w, b.y1 - b.y0, h), w, h)

\* the projection for the route points pts of all activities
projectionFor(pts, w, h) ==
    IF Len(pts) = 0
    THEN [kind |-> "mercator", sn |-> 100, sd |-> 1,
          oxn |-> w, oyn |-> h, od |-> 2]
    ELSE fittedProjection(unitBounds(pts), w, h)

createProjection(acts, w, h) == projectionFor(allRoutePoints(acts), w, h)

\* projection([lng, lat]) as the fractions xn / d, yn / d (d = 0: not finite)
applyProjection(proj, p) ==
    LET q == unitProject(p)
    IN  [xn |-> proj.oxn + 2 * proj.sn * q.x,
         yn |-> proj.oyn + 2 * proj.sn * q.y,
         d |-> proj.od]

\* the first pass of projectActivities: altitude bounds over all activities
altitudePass(acts) ==
    LET pts == allRoutePoints(acts)
        alts == {pts[i].alt : i \in {j \in 1..Len(pts) : pts[j].hasAlt}}
    IN  IF alts = {}
        THEN [minAltitude |-> 0, maxAltitude |-> 0, hasAltitudeData |-> FALSE]
        ELSE [minAltitude |-> SetMin(alts), maxAltitude |-> SetMax(alts),
              hasAltitudeData |-> TRUE]

\* one projected point; z is the fraction zn / zd (zd = 0: NaN)
projectPoint(proj, ab, point) ==
    LET xy == applyProjection(proj, point)
        useAlt == ab.hasAltitudeData /\ point.hasAlt
    IN  [xn |-> xy.xn, yn |-> xy.yn, d |-> xy.d,
         zn |-> IF useAlt THEN 100 * (point.alt - ab.minAltitude) ELSE 0,
         zd |-> IF useAlt THEN ab.maxAltitude - ab.minAltitude ELSE 1,
         lat |-> point.lat, lng |-> point.lng,
         \* point.altitude ?? 0
         altitude |-> IF point.hasAlt THEN point.alt ELSE 0]

\* the activities with their ids (positions in the list)
withIds(acts) == [i \in 1..Len(acts) |-> [id |-> i, activity |-> acts[i]]]

\* .filter(Boolean(map?.polyline ?? map?.summary_polyline))
hasPolyline(entry) == Truthy(polylineData(entry.activity))

\* the projected points of one route
projectedRoute(proj, ab, routeData) ==
    [k \in 1..Len(routeData) |-> projectPoint(proj, ab, routeData[k])]

\* .map((activity, index) => ...) of one activity: null for an empty route
mappedActivity(entry, i, proj, ab, routeData) ==
    [isNull |-> Len(routeData) = 0,
     id |-> entry.id,
     points |-> projectedRoute(proj, ab, routeData),
     color |-> (i - 1) % PaletteSize]

mappedActivities(filtered, proj, ab) ==
    [i \in 1..Len(filtered) |->
        mappedActivity(filtered[i], i, proj, ab,
                       getActivityRouteData(filtered[i].activity))]

notNull(m) == ~m.isNull

\* the projected activities that are left
projectedOnly(kept) ==
    [i \in 1..Len(kept) |->
        [id |-> kept[i].id, points |-> kept[i].points,
         color |-> kept[i].color]]

projectActivities(acts, proj) ==
    projectedOnly(
        SelectSeq(mappedActivities(SelectSeq(withIds(acts), hasPolyline),
                                   proj, altitudePass(acts)),
                  notNull))

ProjIdle ==
    /\ projPc = "off"
    /\ activities = <<>>
    /\ width = 0
    /\ height = 0
    /\ projection = createProjection(<<>>, 0, 0)
    /\ projectedActivities = <<>>

ProjInit ==
    /\ projPc = "props"
    /\ activities \in ActivityLists
    /\ width \in Widths
    /\ height \in Heights
    /\ projection = createProjection(<<>>, 0, 0)
    /\ projectedActivities = <<>>

\* useMapProjection: createProjection, then projectActivities
UseMapProjection ==
    /\ projPc = "props"
    /\ projection' = createProjection(activities, width, height)
    /\ projectedActivities' =
           projectActivities(activities,
                             createProjection(activities, width, height))
    /\ projPc' = "rendered"
    /\ UNCHANGED <<activities, width, height>>
    /\ UNCHANGED notProj

ProjNext ==
    \/ UseMapProjection

----------------------------------------------------------------------------
(* Spatial indices (spatialIndex.ts).  Coordinates of this section are     *)
(* counted in units of 2^-16 pixel, so that 256 px is 2^24 units and the   *)
(* rounding of a coordinate to float32 is a rounding of an integer.        *)

MaxTracks == 2

\* the unit in the last place of a float32 of magnitude a (integers a >= 0)
RECURSIVE Ulp(_)
Ulp(a) == IF a < 16777216 THEN 1 ELSE 2 * Ulp(a \div 2)

\* Float32Array storage: round to nearest float32, ties to even
F32(v) ==
    LET a == Abs(v)
        u == Ulp(a)
        q == a \div u
        r == a % u
        m == IF 2 * r < u THEN q
             ELSE IF 2 * r > u THEN q + 1
             ELSE IF q % 2 = 0 THEN q ELSE q + 1
    IN  IF v < 0 THEN 0 - m * u ELSE m * u

Pt(x, y) == [x |-> x, y |-> y]

NearPoints == {Pt(0, 0), Pt(4, 0), Pt(3, 4)}

\* a point at 256 px + 1 unit, which float32 does not represent
FarPoint == Pt(16777217, 0)

\* the points of one projected track: up to two of the near points, a
\* three-point track, or a single far point
TrackChoices ==
    UNION {[1..k -> NearPoints] : k \in 0..2}
        \cup {<<Pt(0, 0), Pt(4, 0), Pt(3, 4)>>, <<FarPoint>>}

\* ProjectedActivitySimple[]; the id of a track is its position
TrackLists ==
    UNION {[1..k -> [points : TrackChoices]] : k \in 0..MaxTracks}

NearCentres == {Pt(0, 0), Pt(3, 0), Pt(2, 1), Pt(5, 0)}

PointCentres == NearCentres \cup {Pt(16777218, 0)}

Radii == {-1, 0, 1, 2, 4, 5}

NoBounds == [minX |-> 0, maxX |-> 0, minY |-> 0, maxY |-> 0]

NoPointsIndex ==
    [defined |-> FALSE, points |-> <<>>, coords |-> <<>>, bounds |-> NoBounds]

NoSegIndex == [defined |-> FALSE, items |-> <<>>, bounds |-> NoBounds]

NoQuery == [kind |-> "none", x |-> 0, y |-> 0, radius |-> 0]

\* the IndexedPoint records of one track
indexedPointsOf(acts, a) ==
    [i \in 1..Len(acts[a].points) |->
        [x |-> acts[a].points[i].x, y |-> acts[a].points[i].y,
         activityId |-> a, pointIndex |-> i - 1]]

boundsOfXs(xs, ys) ==
    [minX |-> SetMin(xs), maxX |-> SetMax(xs),
     minY |-> SetMin(ys), maxY |-> SetMax(ys)]

buildPointsIndex(acts) ==
    LET points == Flatten([a \in 1..Len(acts) |-> indexedPointsOf(acts, a)])
    IN  IF Len(acts) = 0 \/ Len(points) = 0 THEN NoPointsIndex
        ELSE [defined |-> TRUE,
              points |-> points,
              \* index.add(p.x, p.y) into a Float32Array
              coords |-> [i \in 1..Len(points) |->
                            Pt(F32(points[i].x), F32(points[i].y))],
              bounds |-> boundsOfXs({points[i].x : i \in 1..Len(points)},
                                    {points[i].y : i \in 1..Len(points)})]

\* KDBush.range: the ids whose stored coordinates lie in the rectangle
range(index, minX, minY, maxX, maxY) ==
    {id \in 1..Len(index.coords) :
        /\ index.coords[id].x >= minX /\ index.coords[id].x <= maxX
        /\ index.coords[id].y >= minY /\ index.coords[id].y <= maxY}

\* dx * dx + dy * dy <= r2; the squares are taken only of offsets that can
\* pass the test
withinR2(dx, dy, r) ==
    /\ Abs(dx) <= Abs(r)
    /\ Abs(dy) <= Abs(r)
    /\ dx * dx + dy * dy <= r * r

queryPointsWithinRadius(index, x, y, radius) ==
    IF ~index.defined \/ radius <= 0 THEN {}
    ELSE LET ids == range(index, x - radius, y - radius,
                          x + radius, y + radius)
         IN  {index.points[id] : id \in
                {i \in ids : withinR2(index.points[i].x - x,
                                      index.points[i].y - y, radius)}}

\* the SegmentRecords of one track: one per consecutive pair of points.
\* length2 is the square of the record's length (Math.hypot).
segmentsOf(acts, a) ==
    LET pts == acts[a].points
    IN  [i \in 1..(IF Len(pts) = 0 THEN 0 ELSE Len(pts) - 1) |->
            [x0 |-> pts[i].x, y0 |-> pts[i].y,
             x1 |-> pts[i + 1].x, y1 |-> pts[i + 1].y,
             activityId |-> a,
             pointStartIndex |-> i - 1, pointEndIndex |-> i,
             minX |-> Min2(pts[i].x, pts[i + 1].x),
             maxX |-> Max2(pts[i].x, pts[i + 1].x),
             minY |-> Min2(pts[i].y, pts[i + 1].y),
             maxY |-> Max2(pts[i].y, pts[i + 1].y),
             length2 |-> (pts[i + 1].x - pts[i].x) * (pts[i + 1].x - pts[i].x)
                       + (pts[i + 1].y - pts[i].y) * (pts[i + 1].y - pts[i].y)]]

buildSegmentGridIndex(acts) ==
    LET segments == Flatten([a \in 1..Len(acts) |-> segmentsOf(acts, a)])
    IN  IF Len(acts) = 0 \/ Len(segments) = 0 THEN NoSegIndex
        ELSE [defined |-> TRUE,
              items |-> segments,
              bounds |->
                  boundsOfXs(
                      {segments[i].minX : i \in 1..Len(segments)}
                          \cup {segments[i].maxX : i \in 1..Len(segments)},
                      {segments[i].minY : i \in 1..Len(segments)}
                          \cup {segments[i].maxY : i \in 1..Len(segments)})]

\* RBush: the bounding boxes a and b intersect
intersects(a, b) ==
    /\ b.minX <= a.maxX
    /\ b.minY <= a.maxY
    /\ b.maxX >= a.minX
    /\ b.maxY >= a.minY

\* querySegmentsNear with the rectangle x .. x + radius, y .. y + radius
querySegmentsNearHalf(index, x, y, radius) ==
    IF ~index.defined \/ radius <= 0 THEN {}
    ELSE LET box == [minX |-> x, minY |-> y,
                     maxX |-> x + radius, maxY |-> y + radius]
         IN  {i \in 1..Len(index.items) : intersects(box, index.items[i])}

\* the positions in the tree's items of the records tree.search returns
querySegmentsNear(index, x, y, radius) ==
    IF ~index.defined \/ radius <= 0 THEN {}
    ELSE LET box == [minX |-> x - radius, minY |-> y - radius,
                     maxX |-> x + radius, maxY |-> y + radius]
         IN  {i \in 1..Len(index.items) : intersects(box, index.items[i])}

\* the loop body of isPointNearAnySegment for one candidate: t is the
\* fraction tn / td, and the closest point is (s.x0 + t * segX, ...)
candidateNear(s, x, y, radius) ==
    LET segX == s.x1 - s.x0
        segY == s.y1 - s.y0
        toPointX == x - s.x0
        toPointY == y - s.y0
        len2 == segX * segX + segY * segY
        \* segLen2 = len2 || 1e-9; the numerator is 0 when len2 is
        segLen2 == IF len2 = 0 THEN 1 ELSE len2
        dot == toPointX * segX + toPointY * segY
        tn == IF dot < 0 THEN 0 ELSE IF dot > segLen2 THEN segLen2 ELSE dot
        dxn == toPointX * segLen2 - tn * segX
        dyn == toPointY * segLen2 - tn * segY
    IN  dxn * dxn + dyn * dyn <= radius * radius * segLen2 * segLen2

isPointNearAnySegment(index, x, y, radius) ==
    IF ~index.defined \/ radius <= 0 THEN FALSE
    ELSE \E i \in querySegmentsNear(index, x, y, radius) :
            candidateNear(index.items[i], x, y, radius)

SpIdle ==
    /\ spPc = "off"
    /\ tracks = <<>>
    /\ pointsIndex = NoPointsIndex
    /\ segIndex = NoSegIndex
    /\ query = NoQuery
    /\ results = {}
    /\ near = FALSE

SpInit ==
    /\ spPc = "props"
    /\ tracks \in TrackLists
    /\ pointsIndex = NoPointsIndex
    /\ segIndex = NoSegIndex
    /\ query = NoQuery
    /\ results = {}
    /\ near = FALSE

BuildPointsIndex ==
    /\ spPc = "props"
    /\ pointsIndex' = buildPointsIndex(tracks)
    /\ spPc' = "points"
    /\ UNCHANGED <<tracks, segIndex, query, results, near>>
    /\ UNCHANGED notSp

BuildSegmentGridIndex ==
    /\ spPc = "props"
    /\ segIndex' = buildSegmentGridIndex(tracks)
    /\ spPc' = "segments"
    /\ UNCHANGED <<tracks, pointsIndex, query, results, near>>
    /\ UNCHANGED notSp

QueryPointsWithinRadius ==
    /\ spPc = "points"
    /\ \E c \in PointCentres, radius \in Radii :
          /\ query' = [kind |-> "points", x |-> c.x, y |-> c.y,
                       radius |-> radius]
          /\ results' = queryPointsWithinRadius(pointsIndex, c.x, c.y, radius)
    /\ spPc' = "answered"
    /\ UNCHANGED <<tracks, pointsIndex, segIndex, near>>
    /\ UNCHANGED notSp

IsPointNearAnySegment ==
    /\ spPc = "segments"
    /\ \E c \in NearCentres, radius \in Radii :
          /\ query' = [kind |-> "near", x |-> c.x, y |-> c.y,
                       radius |-> radius]
          /\ near' = isPointNearAnySegment(segIndex, c.x, c.y, radius)
    /\ spPc' = "answered"
    /\ UNCHANGED <<tracks, pointsIndex, segIndex, results>>
    /\ UNCHANGED notSp

SpNext ==
    \/ BuildPointsIndex
    \/ BuildSegmentGridIndex
    \/ QueryPointsWithinRadius
    \/ IsPointNearAnySegment

----------------------------------------------------------------------------
(* The densify entry point (densifyUtils).  A call settles as a fulfilled  *)
(* or as a rejected promise.  The value an implementation returns is kept  *)
(* as the implementation applied to its arguments.                         *)

\* the keys of densifyMethods
MethodKeys == {"mls", "interpolation", "delaunay"}

\* options.method: a key, "auto", or a string that is no key
MethodChoices == MethodKeys \cup {"auto", "unknown"}

Densities == {1, 8, 10}

\* a projected point with or without an altitude
DensifyPoints ==
    {[x |-> 0, y |-> 0, hasAlt |-> TRUE, altitude |-> 5],
     [x |-> 4, y |-> 3, hasAlt |-> FALSE, altitude |-> 0]}

\* a ProjectedActivity as it arrives at run time: hasPoints = FALSE is an
\* object whose points field is undefined
DensifyActivityChoices ==
    {[hasPoints |-> FALSE, points |-> <<>>]}
        \cup [hasPoints : {TRUE}, points : SeqsUpTo(DensifyPoints, 1)]

DensifyInputs == SeqsUpTo(DensifyActivityChoices, MaxTracks)

NoArgs ==
    [projectedActivities |-> <<>>, method |-> "auto", density |-> 10,
     debug |-> FALSE]

Pending == [status |-> "pending"]

Thrown == [threw |-> TRUE]

Returned(v) == [threw |-> FALSE, value |-> v]

\* activity.points.forEach / for (const p of a.points) on an undefined
\* points field throws a TypeError; the three implementations start alike
iteratesUndefined(acts) == \E a \in 1..Len(acts) : ~acts[a].hasPoints

\* densifyMethods[key].run(projectedActivities, density)
run(key, acts, density) ==
    IF iteratesUndefined(acts) THEN Thrown
    ELSE Returned([by |-> key, projectedActivities |-> acts,
                   density |-> density])

\* the try block of densify
selectedRun(method, acts, density) ==
    LET selectedMethod == IF method = "auto" THEN "mls" ELSE method
    IN  \* impl is undefined for a string that is no key: impl.run throws
        IF selectedMethod \notin MethodKeys THEN Thrown
        ELSE run(selectedMethod, acts, density)

densify(args) ==
    LET acts == args.projectedActivities
        first == selectedRun(args.method, acts, args.density)
        \* the catch block: densifyMethods.interpolation.run, not guarded
        fallback == run("interpolation", acts, args.density)
    IN  \* the debug report reads a.points.length before the try block
        IF args.debug /\ iteratesUndefined(acts)
        THEN [status |-> "rejected"]
        ELSE IF ~first.threw
        THEN [status |-> "fulfilled", value |-> first.value]
        ELSE IF ~fallback.threw
        THEN [status |-> "fulfilled", value |-> fallback.value]
        ELSE [status |-> "rejected"]

DensifyIdle ==
    /\ densifyPc = "off"
    /\ densifyArgs = NoArgs
    /\ outcome = Pending

DensifyInit ==
    /\ densifyPc = "idle"
    /\ densifyArgs = NoArgs
    /\ outcome = Pending

\* a caller invokes densify(projectedActivities, options)
CallDensify ==
    /\ densifyPc = "idle"
    /\ \E acts \in DensifyInputs, method \in MethodChoices,
          density \in Densities, debug \in BOOLEAN :
          densifyArgs' = [projectedActivities |-> acts, method |-> method,
                          density |-> density, debug |-> debug]
    /\ densifyPc' = "called"
    /\ UNCHANGED outcome
    /\ UNCHANGED notDensify

\* the promise settles
SettleDensify ==
    /\ densifyPc = "called"
    /\ outcome' = densify(densifyArgs)
    /\ densifyPc' = "settled"
    /\ UNCHANGED densifyArgs
    /\ UNCHANGED notDensify

DensifyNext ==
    \/ CallDensify
    \/ SettleDensify

----------------------------------------------------------------------------
(* The adaptive terrain mesh (AdaptiveTerrainSurface).  Vertex indices are *)
(* 0-based as in the code; element i of a buffer is position i + 1 of the  *)
(* sequence that models it.  Lengths are compared by their squares.        *)

MaxDensePoints == 4

\* the dense points the inputs are drawn from; no four lie on a circle and
\* no three on a line, so their Delaunay triangulation is unique
DenseCatalogue ==
    <<[x |-> 0, y |-> 0, z |-> 0], [x |-> 4, y |-> 0, z |-> 10],
      [x |-> 1, y |-> 3, z |-> 20], [x |-> 3, y |-> 4, z |-> 30],
      [x |-> 9, y |-> 1, z |-> 40]>>

\* the members of the catalogue with positions in S, in catalogue order
RECURSIVE pick(_, _)
pick(S, i) ==
    IF i > Len(DenseCatalogue) THEN <<>>
    ELSE (IF i \in S THEN <<DenseCatalogue[i]>> ELSE <<>>) \o pick(S, i + 1)

DensePointLists ==
    {pick(S, 1) : S \in {T \in SUBSET (1..Len(DenseCatalogue)) :
                            Cardinality(T) <= MaxDensePoints}}

NoMaxEdge == [has |-> FALSE, value |-> 0]

MaxEdgeChoices == {NoMaxEdge, [has |-> TRUE, value |-> 4],
                   [has |-> TRUE, value |-> 12]}

NoMapBounds == [has |-> FALSE, minX |-> 0, maxX |-> 0, minY |-> 0, maxY |-> 0]

MapBoundsChoices ==
    {NoMapBounds,
     [has |-> TRUE, minX |-> -1, maxX |-> 5, minY |-> -1, maxY |-> 5],
     [has |-> TRUE, minX |-> 0, maxX |-> 10, minY |-> -2, maxY |-> 6],
     [has |-> TRUE, minX |-> -40, maxX |-> 50, minY |-> -40, maxY |-> 44]}

EmptyGeometry == [vertexCount |-> 0, position |-> <<>>, index |-> <<>>]

\* the largest r in lo..hi with r * r <= n, by bisection (lo * lo <= n)
RECURSIVE isqrtIn(_, _, _)
isqrtIn(n, lo, hi) ==
    IF lo >= hi THEN lo
    ELSE LET mid == (lo + hi + 1) \div 2
         IN  IF mid * mid <= n THEN isqrtIn(n, mid, hi)
             ELSE isqrtIn(n, lo, mid - 1)

\* the largest r with r * r <= n
isqrt(n) == isqrtIn(n, 0, Min2(n, 46340))

\* Math.max(1, (maxX - minX) * (maxY - minY)) of the dense points
estimateArea(pts) ==
    LET xs == {pts[i].x : i \in 1..Len(pts)}
        ys == {pts[i].y : i \in 1..Len(pts)}
    IN  Max2(1, (SetMax(xs) - SetMin(xs)) * (SetMax(ys) - SetMin(ys)))

\* the square of maxEdge as the fraction n / d: the configured length, or
\* (6 * sqrt(area / max(1, length))) ^ 2
maxEdge2(pts, mel) ==
    IF mel.has THEN [n |-> mel.value * mel.value, d |-> 1]
    ELSE [n |-> 36 * estimateArea(pts), d |-> Max2(1, Len(pts))]

\* rimStep = maxEdge / 2 is a whole number
wholeRimStep(pts, mel) ==
    LET m == maxEdge2(pts, mel)
    IN  /\ m.n % (4 * m.d) = 0
        /\ isqrt(m.n \div (4 * m.d)) * isqrt(m.n \div (4 * m.d))
               = m.n \div (4 * m.d)

rimStepOf(pts, mel) == LET m == maxEdge2(pts, mel) IN isqrt(m.n \div (4 * m.d))

dist2(p, q) == (p.x - q.x) * (p.x - q.x) + (p.y - q.y) * (p.y - q.y)

\* twice the signed area of the triangle a, b, c
orient(a, b, c) == (b.x - a.x) * (c.y - a.y) - (b.y - a.y) * (c.x - a.x)

\* d lies strictly inside the circle through a, b, c
inCircle(a, b, c, d) ==
    LET ax == a.x - d.x
        ay == a.y - d.y
        bx == b.x - d.x
        by == b.y - d.y
        cx == c.x - d.x
        cy == c.y - d.y
        det == (ax * ax + ay * ay) * (bx * cy - cx * by)
             - (bx * bx + by * by) * (ax * cy - cx * ay)
             + (cx * cx + cy * cy) * (ax * by - bx * ay)
    IN  \/ det > 0 /\ orient(a, b, c) > 0
        \/ det < 0 /\ orient(a, b, c) < 0

\* new Delaunator(coords).triangles as a set of index triples a < b < c: the
\* proper triangles whose circumcircle holds no other point
delaunayTriangles(pts) ==
    {t \in (0..(Len(pts) - 1)) \X (0..(Len(pts) - 1)) \X (0..(Len(pts) - 1)) :
        /\ t[1] < t[2] /\ t[2] < t[3]
        /\ orient(pts[t[1] + 1], pts[t[2] + 1], pts[t[3] + 1]) # 0
        /\ \A d \in 1..Len(pts) :
              ~inCircle(pts[t[1] + 1], pts[t[2] + 1], pts[t[3] + 1], pts[d])}

lexLess(t, u) ==
    \/ t[1] < u[1]
    \/ t[1] = u[1] /\ t[2] < u[2]
    \/ t[1] = u[1] /\ t[2] = u[2] /\ t[3] < u[3]

\* the triples of T in one list of indices, three per triangle
RECURSIVE flatTriangles(_)
flatTriangles(T) ==
    IF T = {} THEN <<>>
    ELSE LET t == CHOOSE u \in T : \A v \in T \ {u} : lexLess(u, v)
         IN  <<t[1], t[2], t[3]>> \o flatTriangles(T \ {t})

\* if (ab > maxEdge || bc > maxEdge || ca > maxEdge) continue
withinMaxEdge(pts, m, t) ==
    /\ dist2(pts[t[1] + 1], pts[t[2] + 1]) * m.d <= m.n
    /\ dist2(pts[t[2] + 1], pts[t[3] + 1]) * m.d <= m.n
    /\ dist2(pts[t[3] + 1], pts[t[1] + 1]) * m.d <= m.n

keptTriangles(pts, m) ==
    {t \in delaunayTriangles(pts) : withinMaxEdge(pts, m, t)}

\* the rim points, in the order they are pushed: two per step along x (on
\* minY and on maxY), then two per step along y (on minX and on maxX)
rimPoints(mb, rimStep) ==
    LET nx == (mb.maxX - mb.minX) \div rimStep + 1
        ny == (mb.maxY - mb.minY) \div rimStep + 1
        xRim == [i \in 1..(2 * nx) |->
                    [x |-> mb.minX + ((i - 1) \div 2) * rimStep,
                     y |-> IF i % 2 = 1 THEN mb.minY ELSE mb.maxY,
                     z |-> 0]]
        yRim == [i \in 1..(2 * ny) |->
                    [x |-> IF i % 2 = 1 THEN mb.minX ELSE mb.maxX,
                     y |-> mb.minY + ((i - 1) \div 2) * rimStep,
                     z |-> 0]]
    IN  xRim \o yRim

\* the first index that attains the least key; keys maps the eligible
\* indices to their keys; -1 if there is none
firstLeast(keys) ==
    IF DOMAIN keys = {} THEN -1
    ELSE CHOOSE vi \in DOMAIN keys :
            \A vj \in DOMAIN keys :
                keys[vi] < keys[vj] \/ (keys[vi] = keys[vj] /\ vi <= vj)

\* the linear scan for the nearest interior point at the left edge, row y
nearestL(pts, mb, rimStep, y) ==
    firstLeast([vi \in {vj \in 0..(Len(pts) - 1) :
                          /\ Abs(pts[vj + 1].y - y) <= rimStep
                          /\ pts[vj + 1].x < mb.minX + rimStep}
                   |-> mb.minX - pts[vi + 1].x])

nearestR(pts, mb, rimStep, y) ==
    firstLeast([vi \in {vj \in 0..(Len(pts) - 1) :
                          /\ Abs(pts[vj + 1].y - y) <= rimStep
                          /\ pts[vj + 1].x > mb.maxX - rimStep}
                   |-> pts[vi + 1].x - mb.maxX])

\* the indices pushed by the left/right edge loop from y on
RECURSIVE rimTriangles(_, _, _, _)
rimTriangles(pts, mb, rimStep, y) ==
    IF ~(y < mb.maxY) THEN <<>>
    ELSE LET baseIndex == Len(pts)
             i0 == baseIndex
                     + ((2 * (y - mb.minY)) \div rimStep
                        + (2 * ((mb.maxX - mb.minX) \div rimStep) + 2))
             i1 == i0 + 2
             l == nearestL(pts, mb, rimStep, y)
             r == nearestR(pts, mb, rimStep, y)
         IN  (IF l >= 0 THEN <<l, i0, i0 + 2>> ELSE <<>>)
                 \o (IF r >= 0 THEN <<r, i1, i1 + 2>> ELSE <<>>)
                 \o rimTriangles(pts, mb, rimStep, y + rimStep)

\* the geometry memo: the position buffer (one record per vertex) and the
\* index list
AdaptiveTerrainSurface(pts, mel, mb) ==
    IF Len(pts) < 3 THEN EmptyGeometry
    ELSE LET m == maxEdge2(pts, mel)
             triIdx == flatTriangles(keptTriangles(pts, m))
             positions == [i \in 1..Len(pts) |->
                             [x |-> pts[i].x, y |-> pts[i].y, z |-> pts[i].z]]
         IN  IF ~mb.has
             THEN [vertexCount |-> Len(pts), position |-> positions,
                   index |-> triIdx]
             ELSE LET rimStep == rimStepOf(pts, mel)
                      rim == rimPoints(mb, rimStep)
                  IN  [vertexCount |-> Len(pts) + Len(rim),
                       position |-> positions \o rim,
                       index |-> triIdx
                                 \o rimTriangles(pts, mb, rimStep, mb.minY)]

MeshIdle ==
    /\ meshPc = "off"
    /\ densePoints = <<>>
    /\ maxEdgeLength = NoMaxEdge
    /\ mapBounds = NoMapBounds
    /\ geometry = EmptyGeometry

\* the props of the component; with mapBounds the rim step is whole
MeshInit ==
    /\ meshPc = "props"
    /\ densePoints \in DensePointLists
    /\ maxEdgeLength \in MaxEdgeChoices
    /\ mapBounds \in MapBoundsChoices
    /\ (mapBounds.has /\ Len(densePoints) >= 3) =>
           wholeRimStep(densePoints, maxEdgeLength)
    /\ geometry = EmptyGeometry

\* the useMemo that builds the geometry
BuildGeometry ==
    /\ meshPc = "props"
    /\ geometry' = AdaptiveTerrainSurface(densePoints, maxEdgeLength, mapBounds)
    /\ meshPc' = "built"
    /\ UNCHANGED <<densePoints, maxEdgeLength, mapBounds>>
    /\ UNCHANGED notMesh

MeshNext ==
    \/ BuildGeometry

----------------------------------------------------------------------------
(* The densification methods (densifyUtils).  A grid step is either the    *)
(* exact fraction 1 / max(1, density) or, when the sample cap decides, the *)
(* square root of area / maxSamples, kept by its square.                   *)

\* maxSamples = 200_000
MaxSamples == 200000

\* computeAdaptiveStep for the requested density dn / dd:
\* [exact |-> TRUE, n, d] is the step n / d; [exact |-> FALSE, n, d] is the
\* step sqrt(n / d)
adaptiveStep(dn, dd, w, h) ==
    \* densityStep = 1 / Math.max(1, requestedDensity)
    IF dn <= dd
    THEN IF Max2(1, w * h) <= MaxSamples
         THEN [exact |-> TRUE, n |-> 1, d |-> 1]
         ELSE [exact |-> FALSE, n |-> Max2(1, w * h), d |-> MaxSamples]
    \* densityStep >= stepFromCap iff area * dn^2 <= maxSamples * dd^2
    ELSE IF Max2(1, w * h) <= (MaxSamples * dd * dd) \div (dn * dn)
         THEN [exact |-> TRUE, n |-> dd, d |-> dn]
         ELSE [exact |-> FALSE, n |-> Max2(1, w * h), d |-> MaxSamples]

\* computeAdaptiveStep for a whole requested density
computeAdaptiveStep(requestedDensity, w, h) ==
    adaptiveStep(requestedDensity, 1, w, h)

RECURSIVE gcd(_, _)
gcd(a, b) == IF b = 0 THEN a ELSE gcd(b, a % b)

\* the number of passes of for (g = min; g <= max; g += step), max - min = len
loopCount(len, step) ==
    IF step.exact THEN (len * step.d) \div step.n + 1
    ELSE \* floor(len / sqrt(n / d)) = isqrt(floor(len * len * d / n)), with
         \* the fraction reduced before it is multiplied out
         LET g1 == gcd(Max2(len, 1), step.n)
             n1 == step.n \div g1
             g2 == gcd(Max2(len, 1), n1)
         IN  isqrt(((len \div g1) * (len \div g2) * step.d) \div (n1 \div g2))
             + 1

\* the altitude-bearing samples of the projected activities, in order
altitudeSamples(acts) ==
    Flatten([a \in 1..Len(acts) |->
        SelectSeq(acts[a].points, LAMBDA p : p.hasAlt)])

\* the extent of a non-empty sample list
sampleExtent(samples) ==
    boundsOfXs({samples[i].x : i \in 1..Len(samples)},
               {samples[i].y : i \in 1..Len(samples)})

\* the grid of mlsDensification: the step and the passes of the two loops
mlsGrid(acts, density) ==
    LET samples == altitudeSamples(acts)
    IN  IF Len(samples) = 0
        THEN [cells |-> 0, nx |-> 0, ny |-> 0,
              step |-> [exact |-> TRUE, n |-> 1, d |-> 1]]
        ELSE LET b == sampleExtent(samples)
                 step == computeAdaptiveStep(density, b.maxX - b.minX,
                                             b.maxY - b.minY)
                 nx == loopCount(b.maxX - b.minX, step)
                 ny == loopCount(b.maxY - b.minY, step)
             IN  [cells |-> nx * ny, nx |-> nx, ny |-> ny, step |-> step]

\* const padding = 10
Padding == 10

\* searchRadius = Math.max(3, step * 2), in pixels, for a step of at most 1.5
SearchRadius == 3

\* the weights below are counted in units of 1e-4
KernelUnit == 10000

\* Math.exp(-d2 / twoSigma2) for twoSigma2 = (3 * 0.6) ** 2 * 2, by the
\* squared distance d2 counted in 64ths of a square pixel (0 .. 9 * 64)
GaussianKernel ==
    <<
       10000, 9976, 9952, 9928, 9904, 9880, 9856, 9833, 9809, 9785, 9762, 9738,
       9715, 9691, 9668, 9645, 9622, 9598, 9575, 9552, 9529, 9506, 9483, 9461,
       9438, 9415, 9392, 9370, 9347, 9325, 9302, 9280, 9257, 9235, 9213, 9191,
       9169, 9146, 9124, 9102, 9081, 9059, 9037, 9015, 8993, 8972, 8950, 8929,
       8907, 8886, 8864, 8843, 8822, 8800, 8779, 8758, 8737, 8716, 8695, 8674,
       8653, 8632, 8611, 8591, 8570, 8549, 8529, 8508, 8488, 8467, 8447, 8427,
       8406, 8386, 8366, 8346, 8326, 8305, 8285, 8266, 8246, 8226, 8206, 8186,
       8166, 8147, 8127, 8108, 8088, 8069, 8049, 8030, 8010, 7991, 7972, 7953,
       7934, 7914, 7895, 7876, 7857, 7838, 7820, 7801, 7782, 7763, 7745, 7726,
       7707, 7689, 7670, 7652, 7633, 7615, 7597, 7578, 7560, 7542, 7524, 7506,
       7487, 7469, 7451, 7434, 7416, 7398, 7380, 7362, 7344, 7327, 7309, 7292,
       7274, 7256, 7239, 7222, 7204, 7187, 7169, 7152, 7135, 7118, 7101, 7084,
       7066, 7049, 7032, 7016, 6999, 6982, 6965, 6948, 6931, 6915, 6898, 6882,
       6865, 6848, 6832, 6815, 6799, 6783, 6766, 6750, 6734, 6718, 6701, 6685,
       6669, 6653, 6637, 6621, 6605, 6589, 6573, 6558, 6542, 6526, 6510, 6495,
       6479, 6463, 6448, 6432, 6417, 6401, 6386, 6371, 6355, 6340, 6325, 6309,
       6294, 6279, 6264, 6249, 6234, 6219, 6204, 6189, 6174, 6159, 6144, 6129,
       6115, 6100, 6085, 6071, 6056, 6041, 6027, 6012, 5998, 5983, 5969, 5955,
       5940, 5926, 5912, 5897, 5883, 5869, 5855, 5841, 5827, 5813, 5799, 5785,
       5771, 5757, 5743, 5729, 5715, 5702, 5688, 5674, 5661, 5647, 5633, 5620,
       5606, 5593, 5579, 5566, 5552, 5539, 5526, 5512, 5499, 5486, 5473, 5460,
       5446, 5433, 5420, 5407, 5394, 5381, 5368, 5355, 5342, 5329, 5317, 5304,
       5291, 5278, 5266, 5253, 5240, 5228, 5215, 5202, 5190, 5177, 5165, 5153,
       5140, 5128, 5115, 5103, 5091, 5079, 5066, 5054, 5042, 5030, 5018, 5006,
       4994, 4981, 4969, 4958, 4946, 4934, 4922, 4910, 4898, 4886, 4875, 4863,
       4851, 4839, 4828, 4816, 4805, 4793, 4781, 4770, 4758, 4747, 4736, 4724,
       4713, 4701, 4690, 4679, 4668, 4656, 4645, 4634, 4623, 4612, 4600, 4589,
       4578, 4567, 4556, 4545, 4534, 4523, 4513, 4502, 4491, 4480, 4469, 4458,
       4448, 4437, 4426, 4416, 4405, 4394, 4384, 4373, 4363, 4352, 4342, 4331,
       4321, 4310, 4300, 4290, 4279, 4269, 4259, 4249, 4238, 4228, 4218, 4208,
       4198, 4188, 4177, 4167, 4157, 4147, 4137, 4127, 4117, 4108, 4098, 4088,
       4078, 4068, 4058, 4049, 4039, 4029, 4019, 4010, 4000, 3990, 3981, 3971,
       3962, 3952, 3943, 3933, 3924, 3914, 3905, 3895, 3886, 3877, 3867, 3858,
       3849, 3839, 3830, 3821, 3812, 3803, 3793, 3784, 3775, 3766, 3757, 3748,
       3739, 3730, 3721, 3712, 3703, 3694, 3685, 3676, 3667, 3659, 3650, 3641,
       3632, 3624, 3615, 3606, 3597, 3589, 3580, 3571, 3563, 3554, 3546, 3537,
       3529, 3520, 3512, 3503, 3495, 3486, 3478, 3470, 3461, 3453, 3445, 3436,
       3428, 3420, 3412, 3403, 3395, 3387, 3379, 3371, 3363, 3354, 3346, 3338,
       3330, 3322, 3314, 3306, 3298, 3290, 3282, 3275, 3267, 3259, 3251, 3243,
       3235, 3227, 3220, 3212, 3204, 3197, 3189, 3181, 3173, 3166, 3158, 3151,
       3143, 3135, 3128, 3120, 3113, 3105, 3098, 3090, 3083, 3076, 3068, 3061,
       3053, 3046, 3039, 3031, 3024, 3017, 3010, 3002, 2995, 2988, 2981, 2973,
       2966, 2959, 2952, 2945, 2938, 2931, 2924, 2917, 2910, 2903, 2896, 2889,
       2882, 2875, 2868, 2861, 2854, 2847, 2840, 2833, 2827, 2820, 2813, 2806,
       2799, 2793, 2786, 2779, 2773, 2766, 2759, 2753, 2746, 2739, 2733, 2726,
       2720, 2713, 2707, 2700, 2694, 2687, 2681, 2674, 2668, 2661, 2655, 2648,
       2642, 2636, 2629, 2623, 2617, 2610, 2604, 2598, 2592, 2585, 2579, 2573,
       2567, 2561, 2554, 2548, 2542, 2536, 2530, 2524, 2518, 2512, 2506, 2500,
       2494
    >>

\* the concrete methods below take integer pixel coordinates and a density
\* whose step 1 / density decides the grid and divides 1 / 8 pixel evenly;
\* they count grid coordinates in steps (units of 1 / density pixel)
densityStepWins(w, h, density) ==
    /\ computeAdaptiveStep(density, w, h).exact
    /\ Max2(1, density) \in {1, 2, 4, 8}

\* the points of all activities, in order
allProjectedPoints(acts) == Flatten([a \in 1..Len(acts) |-> acts[a].points])

\* the cells of for (x ...) { for (y ...) } in the order they are visited
gridCells(nx, ny) ==
    [c \in 1..(nx * ny) |-> [i |-> (c - 1) \div ny, j |-> (c - 1) % ny]]

\* the samples within searchRadius of the grid point (gx, gy), as indices in
\* the order of insertion (the order in which an index of at most 16 points,
\* the node size, is scanned)
samplesInRadius(samples, dens, gx, gy) ==
    {id \in 1..Len(samples) :
        withinR2(samples[id].x * dens - gx, samples[id].y * dens - gy,
                 SearchRadius * dens)}

sampleD2(samples, dens, gx, gy, id) ==
    (samples[id].x * dens - gx) * (samples[id].x * dens - gx)
    + (samples[id].y * dens - gy) * (samples[id].y * dens - gy)

\* if (d2 < bestD2 && d2 <= maxRadius2): the first of the nearest samples
nearestSample(samples, dens, gx, gy) ==
    LET ids == samplesInRadius(samples, dens, gx, gy)
    IN  CHOOSE id \in ids :
            \A o \in ids :
                \/ sampleD2(samples, dens, gx, gy, id)
                       < sampleD2(samples, dens, gx, gy, o)
                \/ /\ sampleD2(samples, dens, gx, gy, id)
                          = sampleD2(samples, dens, gx, gy, o)
                   /\ id <= o

\* bounds: the extent of xyPts widened by pad and the altitudes of zPts, in
\* pixels; an extent of no points keeps its sentinels Infinity and -Infinity
\* (xyFinite, zFinite = FALSE)
resultBounds(xyPts, zPts, pad) ==
    LET xs == {xyPts[i].x : i \in 1..Len(xyPts)}
        ys == {xyPts[i].y : i \in 1..Len(xyPts)}
        zs == {zPts[i].altitude : i \in 1..Len(zPts)}
    IN  [xyFinite |-> xs # {}, zFinite |-> zs # {},
         minX |-> IF xs = {} THEN 0 ELSE SetMin(xs) - pad,
         maxX |-> IF xs = {} THEN 0 ELSE SetMax(xs) + pad,
         minY |-> IF ys = {} THEN 0 ELSE SetMin(ys) - pad,
         maxY |-> IF ys = {} THEN 0 ELSE SetMax(ys) + pad,
         minZ |-> IF zs = {} THEN 0 ELSE SetMin(zs),
         maxZ |-> IF zs = {} THEN 0 ELSE SetMax(zs)]

\* { densePoints: [], bounds } of a method that found no sample
NoDensePoints(bounds) ==
    [densePoints |-> <<>>, perPixel |-> 1, bounds |-> bounds]

\* a dense point: x and y in steps, z the fraction zn / zd
DensePoint(x, y, zn, zd) == [x |-> x, y |-> y, zn |-> zn, zd |-> zd]

isDefined(c) == c.has

\* the points pushed by a pass over the cells: those of the cells that push
pushed(cells) ==
    LET made == SelectSeq(cells, isDefined)
    IN  [k \in 1..Len(made) |-> made[k].point]

\* the passes 0 .. n - 1 of a grid loop from g0 whose value lies in live
livePasses(n, g0, live) ==
    SelectSeq([k \in 1..n |-> k - 1], LAMBDA i : g0 + i \in live)

\* the passes of for (x ...) { for (y ...) } whose range query can find a
\* sample, in the order they are visited: those of the columns and of the
\* rows within the search radius of a sample; every other pass finds no id
\* and continues
liveCells(samples, dens, x0, y0, nx, ny) ==
    LET columns == UNION {((samples[i].x - SearchRadius) * dens)
                          ..((samples[i].x + SearchRadius) * dens) :
                              i \in 1..Len(samples)}
        rows == UNION {((samples[i].y - SearchRadius) * dens)
                       ..((samples[i].y + SearchRadius) * dens) :
                           i \in 1..Len(samples)}
        is == livePasses(nx, x0, columns)
        js == livePasses(ny, y0, rows)
    IN  [c \in 1..(Len(is) * Len(js)) |->
            [i |-> is[((c - 1) \div Len(js)) + 1],
             j |-> js[((c - 1) % Len(js)) + 1]]]

interpolateDensePoints(acts, density) ==
    LET pts == allProjectedPoints(acts)
        samples == altitudeSamples(acts)
        bounds == resultBounds(pts, samples, Padding)
    IN  IF Len(samples) = 0 THEN NoDensePoints(bounds)
        ELSE LET b == sampleExtent(pts)
                 w == b.maxX - b.minX + 2 * Padding
                 h == b.maxY - b.minY + 2 * Padding
                 step == computeAdaptiveStep(density, w, h)
                 dens == step.d
                 x0 == (b.minX - Padding) * dens
                 y0 == (b.minY - Padding) * dens
                 cells == liveCells(samples, dens, x0, y0,
                                    loopCount(w, step), loopCount(h, step))
                 visit(c) ==
                     LET gx == x0 + c.i
                         gy == y0 + c.j
                     IN  IF samplesInRadius(samples, dens, gx, gy) = {}
                         THEN [has |-> FALSE, point |-> DensePoint(gx, gy, 0, 1)]
                         ELSE [has |-> TRUE,
                               point |-> DensePoint(gx, gy,
                                   samples[nearestSample(samples, dens,
                                                         gx, gy)].altitude, 1)]
             IN  [densePoints |->
                      pushed([c \in 1..Len(cells) |-> visit(cells[c])]),
                  perPixel |-> dens, bounds |-> bounds]

\* Math.exp(-d2 / twoSigma2) of a squared distance in square steps
kernel(d2, dens) == GaussianKernel[d2 * (64 \div (dens * dens)) + 1]

RECURSIVE sumOver(_, _)
sumOver(f, S) ==
    IF S = {} THEN 0
    ELSE LET e == CHOOSE x \in S : TRUE IN f[e] + sumOver(f, S \ {e})

\* wsum and zsum of one grid point
mlsSums(samples, dens, gx, gy) ==
    LET ids == samplesInRadius(samples, dens, gx, gy)
        w == [id \in ids |-> kernel(sampleD2(samples, dens, gx, gy, id), dens)]
    IN  [wsum |-> sumOver(w, ids),
         zsum |-> sumOver([id \in ids |-> w[id] * samples[id].altitude], ids)]

\* zsum / wsum with the sample count in the place of wsum
mlsCellByCount(samples, dens, gx, gy) ==
    LET sums == mlsSums(samples, dens, gx, gy)
    IN  IF sums.wsum = 0
        THEN [has |-> FALSE, point |-> DensePoint(gx, gy, 0, 1)]
        ELSE [has |-> TRUE,
              point |-> DensePoint(gx, gy, sums.zsum,
                  KernelUnit
                  * Cardinality(samplesInRadius(samples, dens, gx, gy)))]

\* one pass of the inner loop of mlsDensification
mlsCell(samples, dens, gx, gy) ==
    LET sums == mlsSums(samples, dens, gx, gy)
    IN  IF sums.wsum = 0
        THEN [has |-> FALSE, point |-> DensePoint(gx, gy, 0, 1)]
        ELSE [has |-> TRUE,
              point |-> DensePoint(gx, gy, sums.zsum, sums.wsum)]

mlsDensification(acts, density) ==
    LET samples == altitudeSamples(acts)
        bounds == resultBounds(samples, samples, 0)
    IN  IF Len(samples) = 0 THEN NoDensePoints(bounds)
        ELSE LET b == sampleExtent(samples)
                 grid == mlsGrid(acts, density)
                 dens == grid.step.d
                 cells == gridCells(grid.nx, grid.ny)
             IN  [densePoints |->
                      pushed([c \in 1..Len(cells) |->
                          mlsCell(samples, dens, b.minX * dens + cells[c].i,
                                  b.minY * dens + cells[c].j)]),
                  perPixel |-> dens, bounds |-> bounds]

\* interpolateZ at the grid point (gx, gy) of the triangle t of pts
interpolateZ(pts, dens, t, gx, gy) ==
    LET a == pts[t[1] + 1]
        b == pts[t[2] + 1]
        c == pts[t[3] + 1]
        v0x == (b.x - a.x) * dens
        v0y == (b.y - a.y) * dens
        v1x == (c.x - a.x) * dens
        v1y == (c.y - a.y) * dens
        v2x == gx - a.x * dens
        v2y == gy - a.y * dens
        den == v0x * v1y - v1x * v0y
        sgn == IF den < 0 THEN -1 ELSE 1
        \* u, v, w as fractions over |den|
        u == sgn * (v2x * v1y - v1x * v2y)
        v == sgn * (v0x * v2y - v2x * v0y)
        w == Abs(den) - u - v
    IN  IF den = 0 \/ u < 0 \/ v < 0 \/ w < 0
        THEN [has |-> FALSE, point |-> DensePoint(gx, gy, 0, 1)]
        ELSE [has |-> TRUE,
              point |-> DensePoint(gx, gy,
                  u * b.altitude + v * c.altitude + w * a.altitude, Abs(den))]

\* the grid points of the bounding box of one triangle, in loop order
triangleCells(pts, dens, t) ==
    LET xs == {pts[t[k] + 1].x * dens : k \in 1..3}
        ys == {pts[t[k] + 1].y * dens : k \in 1..3}
        cells == gridCells(SetMax(xs) - SetMin(xs) + 1,
                           SetMax(ys) - SetMin(ys) + 1)
    IN  [c \in 1..Len(cells) |->
            interpolateZ(pts, dens, t, SetMin(xs) + cells[c].i,
                         SetMin(ys) + cells[c].j)]

\* the points of the n-th and later triangles with no test of seen
pushedFrom(perTriangle, n, seen) ==
    Flatten(SubSeq(perTriangle, n, Len(perTriangle)))

\* if (seen.has(key)) continue: the points of the n-th and later triangles
\* whose grid position no earlier triangle has pushed
RECURSIVE unseenFrom(_, _, _)
unseenFrom(perTriangle, n, seen) ==
    IF n > Len(perTriangle) THEN <<>>
    ELSE LET fresh == SelectSeq(perTriangle[n],
                                LAMBDA p : <<p.x, p.y>> \notin seen)
         IN  fresh \o unseenFrom(perTriangle, n + 1,
                 seen \cup {<<fresh[k].x, fresh[k].y>> : k \in 1..Len(fresh)})

delaunayDensification(acts, density) ==
    LET pts == altitudeSamples(acts)
        bounds == resultBounds(pts, pts, 0)
    IN  IF Len(pts) < 3 THEN NoDensePoints(bounds)
        ELSE LET b == sampleExtent(pts)
                 step == computeAdaptiveStep(density, b.maxX - b.minX,
                                             b.maxY - b.minY)
                 dens == step.d
                 tris == flatTriangles(delaunayTriangles(pts))
                 perTriangle ==
                     [n \in 1..(Len(tris) \div 3) |->
                         pushed(triangleCells(pts, dens,
                             <<tris[3 * n - 2], tris[3 * n - 1], tris[3 * n]>>))]
             IN  [densePoints |-> unseenFrom(perTriangle, 1, {}),
                  perPixel |-> dens, bounds |-> bounds]

\* densifyMethods[key].run(activities, density)
methodRun(key, acts, density) ==
    IF key = "mls" THEN mlsDensification(acts, density)
    ELSE IF key = "interpolation" THEN interpolateDensePoints(acts, density)
    ELSE delaunayDensification(acts, density)

\* a track of two altitude-bearing samples spanning w by h
spanTrack(w, h) ==
    [hasPoints |-> TRUE,
     points |-> <<[x |-> 0, y |-> 0, hasAlt |-> TRUE, altitude |-> 5],
                  [x |-> w, y |-> h, hasAlt |-> TRUE, altitude |-> 9]>>]

\* extents: a point, square, flat, of zero height, of near-zero height
ExtentChoices ==
    {<<0, 0>>, <<3, 4>>, <<40, 30>>, <<100, 100>>, <<1001, 0>>, <<0, 1001>>,
     <<100, 1>>, <<20, 0>>}

SizingDensities == {0, 1, 2, 8, 10, 400}

NoGridInput == [kind |-> "none"]

NoGridResult == [kind |-> "none"]

GridIdle ==
    /\ gridPc = "off"
    /\ gridInput = NoGridInput
    /\ gridResult = NoGridResult

GridInit ==
    /\ gridPc = "idle"
    /\ gridInput = NoGridInput
    /\ gridResult = NoGridResult

\* mlsDensification on an extent, up to the heads of its two grid loops
SizeMlsGrid ==
    /\ gridPc = "idle"
    /\ \E e \in ExtentChoices, density \in SizingDensities,
          extra \in SUBSET {<<3, 4>>, <<40, 30>>} :
          LET acts == <<spanTrack(e[1], e[2])>>
                      \o (IF <<3, 4>> \in extra
                          THEN <<spanTrack(3, 4)>> ELSE <<>>)
                      \o (IF <<40, 30>> \in extra
                          THEN <<spanTrack(40, 30)>> ELSE <<>>)
          IN  /\ gridInput' = [kind |-> "size", projectedActivities |-> acts,
                               density |-> density]
              /\ gridResult' = [kind |-> "size", grid |-> mlsGrid(acts, density)]
    /\ gridPc' = "sized"
    /\ UNCHANGED notGrid

\* requested densities dn / dd: below 1, 1 and above
StepDensities == {<<1, 4>>, <<1, 2>>, <<1, 1>>, <<3, 2>>, <<2, 1>>, <<10, 1>>}

\* computeAdaptiveStep(requestedDensity, width, height)
ComputeAdaptiveStep ==
    /\ gridPc = "idle"
    /\ \E e \in ExtentChoices, density \in StepDensities :
          /\ gridInput' = [kind |-> "step", width |-> e[1], height |-> e[2],
                           dn |-> density[1], dd |-> density[2]]
          /\ gridResult' = [kind |-> "step",
                            step |-> adaptiveStep(density[1], density[2],
                                                  e[1], e[2])]
    /\ gridPc' = "stepped"
    /\ UNCHANGED notGrid

\* a projected point as the methods read it: altitude is a number or undefined
Sample(x, y, alt) == [x |-> x, y |-> y, hasAlt |-> TRUE, altitude |-> alt]

Unmeasured(x, y) == [x |-> x, y |-> y, hasAlt |-> FALSE, altitude |-> 0]

\* a polyline-only activity and the viewport its track is projected in
PolylineOnly ==
    [polyline |-> Str(TwoPointLine), summary_polyline |-> Absent,
     detailedPoints |-> NoStream]

ViewWidth == 80

ViewHeight == 77

\* x and y of a projected point in whole pixels; projectActivities leaves
\* no altitude undefined (point.altitude ?? 0)
pixelPoint(p) ==
    [x |-> p.xn \div p.d, y |-> p.yn \div p.d, hasAlt |-> TRUE,
     altitude |-> p.altitude]

pixelTracks(projected) ==
    [t \in 1..Len(projected) |->
        [hasPoints |-> TRUE,
         points |-> [k \in 1..Len(projected[t].points) |->
                        pixelPoint(projected[t].points[k])]]]

\* what useMapProjection hands on for activities in a viewport
projectedTracks(acts, w, h) ==
    pixelTracks(projectActivities(acts, createProjection(acts, w, h)))

\* tracks: far apart, close, of one altitude, without altitude, and the
\* projector's track of a polyline
GridTrackChoices ==
    {<<Sample(0, 0, 5), Sample(6, 6, 9)>>,
     <<Sample(0, 0, 5), Sample(2, 0, 9)>>,
     <<Sample(0, 0, 5), Sample(2, 0, 5), Sample(1, 2, 5)>>,
     <<Unmeasured(4, 3)>>,
     projectedTracks(<<PolylineOnly>>, ViewWidth, ViewHeight)[1].points}

GridInputs ==
    SeqsUpTo([hasPoints : {TRUE}, points : GridTrackChoices], MaxTracks)

\* the extent the step of a method is computed from
stepExtent(key, acts) ==
    LET pts == IF key = "interpolation" THEN allProjectedPoints(acts)
               ELSE altitudeSamples(acts)
        pad == IF key = "interpolation" THEN 2 * Padding ELSE 0
    IN  IF Len(pts) = 0 THEN [w |-> 0, h |-> 0]
        ELSE [w |-> sampleExtent(pts).maxX - sampleExtent(pts).minX + pad,
              h |-> sampleExtent(pts).maxY - sampleExtent(pts).minY + pad]

RunDensities == {0, 1}

\* densifyMethods[key].run(projectedActivities, density)
RunMethod ==
    /\ gridPc = "idle"
    /\ \E acts \in GridInputs, key \in MethodKeys, density \in RunDensities :
          /\ densityStepWins(stepExtent(key, acts).w, stepExtent(key, acts).h,
                             density)
          /\ gridInput' = [kind |-> "run", projectedActivities |-> acts,
                           method |-> key, density |-> density]
          /\ gridResult' = [kind |-> "run",
                            result |-> methodRun(key, acts, density)]
    /\ gridPc' = "ran"
    /\ UNCHANGED notGrid

GridNext ==
    \/ SizeMlsGrid
    \/ ComputeAdaptiveStep
    \/ RunMethod

----------------------------------------------------------------------------
(* calculateBoundingBox (StravaActivityMapUtils).  Latitudes and           *)
(* longitudes of a bounding box are counted in tenths of the decoder's     *)
(* unit (1e-6 degree), so that the padding of a tenth of a span is exact.  *)

BBoxLineA == polylineEncode(<<[lat |-> -16, lng |-> 600], [lat |-> 15, lng |-> -600]>>)

BBoxLineB == polylineEncode(<<[lat |-> 600, lng |-> 16]>>)

BBoxLineC == polylineEncode(<<[lat |-> 0, lng |-> 0], [lat |-> 0, lng |-> 15]>>)

\* activity.map?.summary_polyline: missing, empty, or an encoded route
BBoxSummaryChoices ==
    {Absent, Str(<<>>), Str(OnePointLine), Str(TwoPointLine), Str(BBoxLineA),
     Str(BBoxLineB), Str(BBoxLineC)}

BBoxActivityLists ==
    SeqsUpTo([summary_polyline : BBoxSummaryChoices], MaxActivities)

\* { minLat: -90, maxLat: 90, minLng: -180, maxLng: 180 }
WorldBox ==
    [minLat |-> -90000000, maxLat |-> 90000000,
     minLng |-> -180000000, maxLng |-> 180000000]

ZeroBox == [minLat |-> 0, maxLat |-> 0, minLng |-> 0, maxLng |-> 0]

\* the decoded points of the activities that have a summary polyline
boundingBoxPoints(acts) ==
    Flatten([i \in 1..Len(acts) |->
        IF Truthy(acts[i].summary_polyline)
        THEN decodePolylineLib(acts[i].summary_polyline.str)
        ELSE <<>>])

calculateBoundingBox(acts) ==
    IF Len(acts) = 0 THEN ZeroBox
    ELSE LET pts == boundingBoxPoints(acts)
             lats == {pts[i].lat : i \in 1..Len(pts)}
             lngs == {pts[i].lng : i \in 1..Len(pts)}
         IN  IF Len(pts) = 0 THEN WorldBox
             ELSE LET latPadding == SetMax(lats) - SetMin(lats)
                      lngPadding == SetMax(lngs) - SetMin(lngs)
                  IN  [minLat |-> 10 * SetMin(lats) - latPadding,
                       maxLat |-> 10 * SetMax(lats) + latPadding,
                       minLng |-> 10 * SetMin(lngs) - lngPadding,
                       maxLng |-> 10 * SetMax(lngs) + lngPadding]

BBoxIdle ==
    /\ bboxPc = "off"
    /\ bboxActivities = <<>>
    /\ boundingBox = ZeroBox

BBoxInit ==
    /\ bboxPc = "props"
    /\ bboxActivities \in BBoxActivityLists
    /\ boundingBox = ZeroBox

CalculateBoundingBox ==
    /\ bboxPc = "props"
    /\ boundingBox' = calculateBoundingBox(bboxActivities)
    /\ bboxPc' = "done"
    /\ UNCHANGED bboxActivities
    /\ UNCHANGED notBBox

BBoxNext ==
    \/ CalculateBoundingBox

----------------------------------------------------------------------------
(* The 3D map component (StravaActivity3DMap) with the activities of the   *)
(* streams hook.  A handler and the run it awaits are one step.  A list of *)
(* normalised dense points is named by the run that made it, the selected  *)
(* activities and the method: a run is a function of the two.              *)

\* density: 8
TerrainDensity == 8

MapWidth == 40

MapHeight == 40

\* a route along the equator whose projection in the viewport is (1, 20),
\* (39, 20)
EquatorRoute == <<[lat |-> 0, lng |-> 0], [lat |-> 0, lng |-> 38]>>

EquatorLine == polylineEncode(EquatorRoute)

NoStreamData == [has |-> FALSE, data |-> <<>>]

StreamData(d) == [has |-> TRUE, data |-> d]

\* the streams response of an activity: missing, or a latlng and an altitude
\* stream, each of which can be missing
NoStreams == [has |-> FALSE, latlng |-> NoStreamData, altitude |-> NoStreamData]

Streams(latlng, altitude) ==
    [has |-> TRUE, latlng |-> latlng, altitude |-> altitude]

\* the activities of the athlete: with measured altitudes, with a latlng
\* stream only, with a polyline only, with an altitude stream only
MeasuredActivity ==
    [id |-> 1, polyline |-> Str(EquatorLine),
     streams |-> Streams(StreamData(EquatorRoute), StreamData(<<5, 9>>))]

UnmeasuredActivity ==
    [id |-> 2, polyline |-> Str(EquatorLine),
     streams |-> Streams(StreamData(EquatorRoute), NoStreamData)]

PolylineActivity ==
    [id |-> 3, polyline |-> Str(EquatorLine), streams |-> NoStreams]

NoLatLngActivity ==
    [id |-> 4, polyline |-> Str(EquatorLine),
     streams |-> Streams(NoStreamData, StreamData(<<5, 9>>))]

\* the activity 1 while its streams query has no data yet
PendingActivity ==
    [id |-> 1, polyline |-> Str(EquatorLine), streams |-> NoStreams]

\* the selections of the user
MapSelections ==
    {<<>>, <<MeasuredActivity>>, <<UnmeasuredActivity>>, <<NoLatLngActivity>>,
     <<MeasuredActivity, PolylineActivity>>, <<PendingActivity>>}

mergeStreamsData(latlngStream, altitudeStream) ==
    IF ~latlngStream.has \/ Len(latlngStream.data) = 0 THEN <<>>
    ELSE [index \in 1..Len(latlngStream.data) |->
            [lat |-> latlngStream.data[index].lat,
             lng |-> latlngStream.data[index].lng,
             \* altitudeStream?.[index] ?? 0
             altitude |-> IF altitudeStream.has
                             /\ index <= Len(altitudeStream.data)
                          THEN altitudeStream.data[index] ELSE 0]]

\* activitiesWithStreams: the activity itself when it has no streams
activitiesWithStreams(raw) ==
    [i \in 1..Len(raw) |->
        [polyline |-> raw[i].polyline, summary_polyline |-> Absent,
         detailedPoints |->
             IF raw[i].streams.has
             THEN Stream(mergeStreamsData(raw[i].streams.latlng,
                                          raw[i].streams.altitude))
             ELSE NoStream]]

calculateAltitudeBounds(acts) ==
    LET pts == allRoutePoints(acts)
        alts == {pts[i].alt : i \in {j \in 1..Len(pts) : pts[j].hasAlt}}
    IN  IF alts = {}
        THEN [minAltitude |-> 0, maxAltitude |-> 0, hasAltitudeData |-> FALSE]
        ELSE [minAltitude |-> SetMin(alts), maxAltitude |-> SetMax(alts),
              hasAltitudeData |-> TRUE]

\* the ids of the activities, sorted
RECURSIVE sortedIds(_)
sortedIds(ids) ==
    IF ids = {} THEN <<>>
    ELSE <<SetMin(ids)>> \o sortedIds(ids \ {SetMin(ids)})

selectionKey(raw) == sortedIds({raw[i].id : i \in 1..Len(raw)})

\* the projectedActivities of useMapProjection for a selection
mapProjected(raw) ==
    projectedTracks(activitiesWithStreams(raw), MapWidth, MapHeight)

\* useMemo: the projected activities of every selection, made once
ProjectedTable ==
    {[of |-> raw, tracks |-> mapProjected(raw)] : raw \in MapSelections}

projectedOf(raw) == (CHOOSE e \in ProjectedTable : e.of = raw).tracks

\* granularity of Math.max(1e-6, maxAltitude - minAltitude)
Micro == 1000000

\* z: hasAltitudeData ? ((p.z - minAltitude) / altitudeRange) * 100 : 0 as
\* the fraction zn * unit / zd (unit = Micro for the range 1e-6)
normalizedPoint(p, ab) ==
    IF ~ab.hasAltitudeData
    THEN [x |-> p.x, y |-> p.y, zn |-> 0, zd |-> 1, unit |-> 1]
    ELSE IF ab.maxAltitude > ab.minAltitude
    THEN [x |-> p.x, y |-> p.y,
          zn |-> 100 * (p.zn - ab.minAltitude * p.zd),
          zd |-> (ab.maxAltitude - ab.minAltitude) * p.zd, unit |-> 1]
    ELSE [x |-> p.x, y |-> p.y,
          zn |-> 100 * (p.zn - ab.minAltitude * p.zd),
          zd |-> p.zd, unit |-> Micro]

\* result.densePoints.map((p) => ({ ...p, z: ... })) under altitudeBounds
normalizedPoints(densePts, ab) ==
    [k \in 1..Len(densePts) |-> normalizedPoint(densePts[k], ab)]

\* normalizedDense of runDensification for a selection and a method
normalizedDense(raw, method) ==
    normalizedPoints(
        methodRun(method, projectedOf(raw), TerrainDensity).densePoints,
        calculateAltitudeBounds(activitiesWithStreams(raw)))

Runs == MapSelections \X MethodKeys

\* the list of every run, made once
DenseTable ==
    {[of |-> r[1], method |-> r[2], points |-> normalizedDense(r[1], r[2])] :
        r \in Runs}

NoRun == [has |-> FALSE, of |-> <<>>, method |-> "mls"]

Run(raw, method) == [has |-> TRUE, of |-> raw, method |-> method]

\* the points of a list named by its run; the initial list is empty
denseOf(made) ==
    IF made.has
    THEN (CHOOSE e \in DenseTable :
              e.of = made.of /\ e.method = made.method).points
    ELSE <<>>

\* cacheBySelection[selectionKey]?.[method]
cachedAt(cache, key, method) ==
    IF \E c \in cache : c.key = key /\ c.method = method
    THEN (CHOOSE c \in cache : c.key = key /\ c.method = method).made
    ELSE NoRun

\* the state after runDensification(method) from the state st
runDensification(st, raw, method) ==
    IF Len(projectedOf(raw)) = 0 THEN st
    ELSE [shown |-> Run(raw, method),
          cache |-> {c \in st.cache :
                        ~(c.key = selectionKey(raw) /\ c.method = method)}
                    \cup {[key |-> selectionKey(raw), method |-> method,
                           made |-> Run(raw, method)]},
          show |-> TRUE,
          invoked |-> TRUE]

\* if (cached && cached.length > 0) setDensePoints(cached);
\* else await runDensification(method)
showOrRun(st, raw, method) ==
    LET cached == cachedAt(st.cache, selectionKey(raw), method)
    IN  IF cached.has /\ Len(denseOf(cached)) > 0
        THEN [st EXCEPT !.shown = cached]
        ELSE runDensification(st, raw, method)

\* the state of the component a handler starts from
mapState(show) ==
    [shown |-> shownDensePoints, cache |-> cacheBySelection, show |-> show,
     invoked |-> FALSE]

MapIdle ==
    /\ mapPc = "off"
    /\ mapActivities = <<>>
    /\ showDenseTerrain = FALSE
    /\ selectedMethodKey = "mls"
    /\ shownDensePoints = NoRun
    /\ cacheBySelection = {}
    /\ densifyInvoked = FALSE

MapInit ==
    /\ mapPc = "mounted"
    /\ mapActivities \in MapSelections
    /\ showDenseTerrain = FALSE
    /\ selectedMethodKey = "mls"
    /\ shownDensePoints = NoRun
    /\ cacheBySelection = {}
    /\ densifyInvoked = FALSE

\* the state variables after a handler
Becomes(st) ==
    /\ shownDensePoints' = st.shown
    /\ cacheBySelection' = st.cache
    /\ showDenseTerrain' = st.show
    /\ densifyInvoked' = st.invoked

\* the parent selects other activities: the effect on [selectionKey]
SelectActivities ==
    /\ mapPc = "mounted"
    /\ \E raw \in MapSelections :
          /\ selectionKey(raw) # selectionKey(mapActivities)
          /\ mapActivities' = raw
          /\ IF ~showDenseTerrain THEN Becomes(mapState(showDenseTerrain))
             ELSE Becomes(showOrRun(mapState(showDenseTerrain), raw,
                                    selectedMethodKey))
    /\ UNCHANGED <<mapPc, selectedMethodKey>>
    /\ UNCHANGED notMap

\* the onChange of the Show terrain checkbox
ToggleTerrain ==
    /\ mapPc = "mounted"
    \* e.target.checked of the controlled checkbox
    /\ LET checked == ~showDenseTerrain
       IN  IF checked
           THEN Becomes(showOrRun(mapState(checked), mapActivities,
                                  selectedMethodKey))
           ELSE Becomes(mapState(checked))
    /\ UNCHANGED <<mapPc, mapActivities, selectedMethodKey>>
    /\ UNCHANGED notMap

HandleSelectMethod ==
    /\ mapPc = "mounted"
    /\ \E method \in MethodKeys :
          /\ selectedMethodKey' = method
          /\ IF showDenseTerrain
             THEN Becomes(showOrRun(mapState(showDenseTerrain), mapActivities,
                                    method))
             ELSE Becomes(mapState(showDenseTerrain))
    /\ UNCHANGED <<mapPc, mapActivities>>
    /\ UNCHANGED notMap

\* the parent passes other route data for the same activities (a streams
\* query has settled): selectionKey is the same and the effect on
\* [selectionKey] does not run
ReceiveRouteData ==
    /\ mapPc = "mounted"
    /\ \E raw \in MapSelections :
          /\ raw # mapActivities
          /\ selectionKey(raw) = selectionKey(mapActivities)
          /\ mapActivities' = raw
    /\ Becomes(mapState(showDenseTerrain))
    /\ UNCHANGED <<mapPc, selectedMethodKey>>
    /\ UNCHANGED notMap

MapNext ==
    \/ SelectActivities
    \/ ToggleTerrain
    \/ HandleSelectMethod
    \/ ReceiveRouteData

----------------------------------------------------------------------------
(* The 3D map component on the event loop.  A handler runs as one task up  *)
(* to its await of densify; what follows the await (the try block's rest   *)
(* and the finally of runDensification) is a step of its own.  The state   *)
(* of the component is the state of the map above, with isDensifying and   *)
(* the runs that have been started and have not resumed yet.               *)

\* a densify that yields to the event loop before it settles: the handler
\* awaiting it resumes in a later task
settledLater(method) == method \notin MethodKeys

\* densify is an async function without an await of its own: the method
\* runs inside the call, the promise is settled when densify returns, and
\* the handler awaiting it resumes in the microtask checkpoint that ends the
\* task, before another event is dispatched
settledOnReturn(method) == method \in MethodKeys

\* no run awaits the microtask checkpoint: the browser can dispatch an event
taskMayStart ==
    \A k \in 1..Len(inFlight) : ~settledOnReturn(inFlight[k].method)

FlightSelections == {<<>>, <<MeasuredActivity>>, <<UnmeasuredActivity>>}

FlightIdle ==
    /\ isDensifying = FALSE
    /\ inFlight = <<>>

FlightInit ==
    /\ mapPc = "mounted"
    /\ mapActivities \in FlightSelections
    /\ showDenseTerrain = FALSE
    /\ selectedMethodKey = "mls"
    /\ shownDensePoints = NoRun
    /\ cacheBySelection = {}
    /\ densifyInvoked = FALSE
    /\ isDensifying = FALSE
    /\ inFlight = <<>>

\* runDensification(method) up to its await
beginRun(raw, method) ==
    IF Len(projectedOf(raw)) = 0
    THEN UNCHANGED <<shownDensePoints, isDensifying, inFlight>>
    ELSE /\ isDensifying' = TRUE
         /\ inFlight' = Append(inFlight, Run(raw, method))
         /\ UNCHANGED shownDensePoints

\* if (cached && cached.length > 0) setDensePoints(cached);
\* else await runDensification(method)
showOrBegin(raw, method) ==
    IF Len(denseOf(cachedAt(cacheBySelection, selectionKey(raw), method))) > 0
    THEN /\ shownDensePoints' =
                cachedAt(cacheBySelection, selectionKey(raw), method)
         /\ UNCHANGED <<isDensifying, inFlight>>
    ELSE beginRun(raw, method)

\* the effect on [selectionKey], after the parent has selected other
\* activities
SelectionEffect ==
    /\ mapPc = "mounted"
    /\ taskMayStart
    /\ \E raw \in FlightSelections :
          /\ selectionKey(raw) # selectionKey(mapActivities)
          /\ mapActivities' = raw
          /\ IF ~showDenseTerrain
             THEN UNCHANGED <<shownDensePoints, isDensifying, inFlight>>
             ELSE showOrBegin(raw, selectedMethodKey)
    /\ UNCHANGED <<mapPc, showDenseTerrain, selectedMethodKey,
                   cacheBySelection, densifyInvoked>>
    /\ UNCHANGED notMapFlight

\* the onChange of the Show terrain checkbox, which is never disabled
TerrainChange ==
    /\ mapPc = "mounted"
    /\ taskMayStart
    /\ showDenseTerrain' = ~showDenseTerrain
    /\ IF showDenseTerrain'
       THEN showOrBegin(mapActivities, selectedMethodKey)
       ELSE UNCHANGED <<shownDensePoints, isDensifying, inFlight>>
    /\ UNCHANGED <<mapPc, mapActivities, selectedMethodKey, cacheBySelection,
                   densifyInvoked>>
    /\ UNCHANGED notMapFlight

\* the onClick of a method button: disabled={isDensifying}
MethodClick ==
    /\ mapPc = "mounted"
    /\ taskMayStart
    /\ ~isDensifying
    /\ \E method \in MethodKeys :
          /\ selectedMethodKey' = method
          /\ IF showDenseTerrain
             THEN showOrBegin(mapActivities, method)
             ELSE UNCHANGED <<shownDensePoints, isDensifying, inFlight>>
    /\ UNCHANGED <<mapPc, mapActivities, showDenseTerrain, cacheBySelection,
                   densifyInvoked>>
    /\ UNCHANGED notMapFlight

\* runDensification after its await, with the selectionKey and the
\* projectedActivities of the render that started it
ResumeRun ==
    /\ mapPc = "mounted"
    /\ inFlight # <<>>
    /\ shownDensePoints' = Head(inFlight)
    /\ cacheBySelection' =
           {c \in cacheBySelection :
               ~(c.key = selectionKey(Head(inFlight).of)
                   /\ c.method = Head(inFlight).method)}
           \cup {[key |-> selectionKey(Head(inFlight).of),
                  method |-> Head(inFlight).method,
                  made |-> Head(inFlight)]}
    /\ showDenseTerrain' = TRUE
    /\ isDensifying' = FALSE
    /\ inFlight' = Tail(inFlight)
    /\ UNCHANGED <<mapPc, mapActivities, selectedMethodKey, densifyInvoked>>
    /\ UNCHANGED notMapFlight

FlightNext ==
    \/ SelectionEffect
    \/ TerrainChange
    \/ MethodClick
    \/ ResumeRun

----------------------------------------------------------------------------
(* The recent-map page: useActivities with the per-activity queries of     *)
(* useDetailedActivitiesWithStreams, the filtered activities of            *)
(* RecentMapPage and the selection of StravaActivityList.  The sources     *)
(* hold two pages and two lists; pageKind and listKind say which ones are  *)
(* mounted.  A step is a change of a query or a click, with the render and *)
(* the effects that follow it.                                             *)

\* the ids of listActivities, in list order
ListedIds == <<1, 2>>

\* an activity of the basic list, and the response of getActivity
basicActivity(id) == [id |-> id, detailed |-> FALSE, detailedPoints |-> NoStream]

detailedActivity(id) == [id |-> id, detailed |-> TRUE, detailedPoints |-> NoStream]

\* the response of getActivityStreams for an id: a latlng and an altitude
\* stream of one sample
streamsOf(id) ==
    Streams(StreamData(<<[lat |-> 0, lng |-> id]>>), StreamData(<<10 * id>>))

\* queries.map((q) => q.data).filter((data) => data !== undefined): the
\* positions of the queries that hold data, in order
RECURSIVE withData(_, _)
withData(queries, k) ==
    IF k > Len(queries) THEN <<>>
    ELSE IF queries[k] = "success" THEN <<k>> \o withData(queries, k + 1)
    ELSE withData(queries, k + 1)

\* activities.map((activity, index) => ...) of
\* useDetailedActivitiesWithStreams over the filtered data lists
mergedAt(acts, streams, index) ==
    IF index > Len(streams) THEN detailedActivity(ListedIds[acts[index]])
    ELSE [detailedActivity(ListedIds[acts[index]]) EXCEPT
              !.detailedPoints =
                  Stream(mergeStreamsData(
                      streamsOf(ListedIds[streams[index]]).latlng,
                      streamsOf(ListedIds[streams[index]]).altitude))]

mergedOver(acts, streams) ==
    [index \in 1..Len(acts) |-> mergedAt(acts, streams, index)]

useDetailedActivitiesWithStreams(aq, sq) ==
    mergedOver(withData(aq, 1), withData(sq, 1))

\* detailedActivitiesMap.get(id) ?? basicActivity
unifiedAt(detailed, id) ==
    IF \E k \in 1..Len(detailed) : detailed[k].id = id
    THEN detailed[CHOOSE k \in 1..Len(detailed) : detailed[k].id = id]
    ELSE basicActivity(id)

\* the activities of useActivities once the basic list has loaded
useActivities(aq, sq) ==
    [n \in 1..Len(ListedIds) |->
        unifiedAt(useDetailedActivitiesWithStreams(aq, sq), ListedIds[n])]

\* isLoadingDetails
isLoadingDetails(aq, sq) ==
    \/ \E k \in 1..Len(aq) : aq[k] = "pending"
    \/ \E k \in 1..Len(sq) : sq[k] = "pending"

idsOf(acts) == [k \in 1..Len(acts) |-> acts[k].id]

\* activities.filter((a) => newSelected.has(a.id.toString()))
RECURSIVE filterSelected(_, _)
filterSelected(acts, selected) ==
    IF acts = <<>> THEN <<>>
    ELSE IF Head(acts).id \in selected
    THEN <<Head(acts)>> \o filterSelected(Tail(acts), selected)
    ELSE filterSelected(Tail(acts), selected)

PageKinds == {"once", "always"}

ListKinds == {"plain", "resetting"}

PageIdle ==
    /\ pagePc = "off"
    /\ pageKind = "once"
    /\ listKind = "plain"
    /\ activityQueries = <<>>
    /\ streamsQueries = <<>>
    /\ filteredActivities = <<>>
    /\ selectedActivities = {}
    /\ listMounted = FALSE
    /\ initializedRef = FALSE
    /\ pageEvent = "none"

PageInit ==
    /\ pagePc = "loading"
    /\ pageKind \in PageKinds
    /\ listKind \in ListKinds
    /\ activityQueries = <<>>
    /\ streamsQueries = <<>>
    /\ filteredActivities = <<>>
    /\ selectedActivities = {}
    /\ listMounted = FALSE
    /\ initializedRef = FALSE
    /\ pageEvent = "none"

\* the page renders the list: not isLoading, and activities.length > 0
listShown(aq, sq) == ~isLoadingDetails(aq, sq) /\ Len(ListedIds) > 0

\* the effect of the resetting list on [activities, onFilterChange] runs
listResets(aq, sq) == listKind = "resetting" /\ listShown(aq, sq)

\* the effect of the page on [activities] sets the filtered activities
pageSets ==
    \/ pageKind = "always"
    \/ pageKind = "once" /\ ~initializedRef

\* the render after the queries have become aq and sq, with its effects
Rendered(aq, sq) ==
    /\ activityQueries' = aq
    /\ streamsQueries' = sq
    /\ listMounted' = listShown(aq, sq)
    /\ selectedActivities' =
           IF listResets(aq, sq) \/ (~listMounted /\ listShown(aq, sq))
           THEN {ListedIds[k] : k \in 1..Len(ListedIds)}
           ELSE selectedActivities
    /\ filteredActivities' =
           IF listResets(aq, sq) \/ pageSets
           THEN useActivities(aq, sq)
           ELSE filteredActivities
    /\ initializedRef' = (initializedRef \/ pageKind = "once")

\* listActivities settles: the ids are known and the queries per id start
LoadList ==
    /\ pagePc = "loading"
    /\ pagePc' = "listed"
    /\ Rendered([k \in 1..Len(ListedIds) |-> "pending"],
                [k \in 1..Len(ListedIds) |-> "pending"])
    /\ pageEvent' = "load"
    /\ UNCHANGED <<pageKind, listKind>>
    /\ UNCHANGED notPage

\* a getActivity query settles
SettleActivity ==
    /\ pagePc = "listed"
    /\ \E k \in 1..Len(activityQueries), to \in {"success", "error"} :
          /\ activityQueries[k] = "pending"
          /\ Rendered([activityQueries EXCEPT ![k] = to], streamsQueries)
    /\ pageEvent' = "data"
    /\ UNCHANGED <<pagePc, pageKind, listKind>>
    /\ UNCHANGED notPage

\* a getActivityStreams query settles
SettleStreams ==
    /\ pagePc = "listed"
    /\ \E k \in 1..Len(streamsQueries), to \in {"success", "error"} :
          /\ streamsQueries[k] = "pending"
          /\ Rendered(activityQueries, [streamsQueries EXCEPT ![k] = to])
    /\ pageEvent' = "data"
    /\ UNCHANGED <<pagePc, pageKind, listKind>>
    /\ UNCHANGED notPage

\* a failed query is fetched again (the window gets the focus back) and
\* returns data
Refetch ==
    /\ pagePc = "listed"
    /\ \/ \E k \in 1..Len(activityQueries) :
             /\ activityQueries[k] = "error"
             /\ Rendered([activityQueries EXCEPT ![k] = "success"],
                         streamsQueries)
       \/ \E k \in 1..Len(streamsQueries) :
             /\ streamsQueries[k] = "error"
             /\ Rendered(activityQueries,
                         [streamsQueries EXCEPT ![k] = "success"])
    /\ pageEvent' = "data"
    /\ UNCHANGED <<pagePc, pageKind, listKind>>
    /\ UNCHANGED notPage

\* handleActivityToggle(activityId, checked) of the checkbox of an activity
HandleActivityToggle ==
    /\ pagePc = "listed"
    /\ listMounted
    /\ \E k \in 1..Len(ListedIds) :
          /\ selectedActivities' =
                 IF ListedIds[k] \in selectedActivities
                 THEN selectedActivities \ {ListedIds[k]}
                 ELSE selectedActivities \cup {ListedIds[k]}
          /\ filteredActivities' =
                 filterSelected(useActivities(activityQueries, streamsQueries),
                                selectedActivities')
    /\ pageEvent' = "user"
    /\ UNCHANGED <<pagePc, pageKind, listKind, activityQueries,
                   streamsQueries, listMounted, initializedRef>>
    /\ UNCHANGED notPage

HandleSelectAll ==
    /\ pagePc = "listed"
    /\ listMounted
    /\ selectedActivities' = {ListedIds[k] : k \in 1..Len(ListedIds)}
    /\ filteredActivities' = useActivities(activityQueries, streamsQueries)
    /\ pageEvent' = "user"
    /\ UNCHANGED <<pagePc, pageKind, listKind, activityQueries,
                   streamsQueries, listMounted, initializedRef>>
    /\ UNCHANGED notPage

HandleSelectNone ==
    /\ pagePc = "listed"
    /\ listMounted
    /\ selectedActivities' = {}
    /\ filteredActivities' = <<>>
    /\ pageEvent' = "user"
    /\ UNCHANGED <<pagePc, pageKind, listKind, activityQueries,
                   streamsQueries, listMounted, initializedRef>>
    /\ UNCHANGED notPage

PageNext ==
    \/ LoadList
    \/ SettleActivity
    \/ SettleStreams
    \/ Refetch
    \/ HandleActivityToggle
    \/ HandleSelectAll
    \/ HandleSelectNone

----------------------------------------------------------------------------
(* getStravaAccessToken under concurrent requests of one user.  A request  *)
(* is split at its awaits: the select of the account row, the fetch of the *)
(* provider and the update of the row are steps of their own, and the      *)
(* steps of different requests interleave.  A token is the number of the   *)
(* provider response that issued it (1 for the tokens of the sign-in, 0    *)
(* for a missing refresh token); times are seconds.                        *)

\* the most requests of one user at a time
MaxCallers == 2

Callers == 1..MaxCallers

\* const oneHour = 60 * 60
OneHour == 3600

\* expires_in of a provider response
ExpiresIn == 21600

\* Math.floor(Date.now() / 1000) at the time of the requests
Clocks == {0, 5000}

NoAccount == [exists |-> FALSE, access_token |-> 0, refresh_token |-> 0, expires_at |-> 0]

Account(access, refresh, expires) ==
    [exists |-> TRUE, access_token |-> access, refresh_token |-> refresh,
     expires_at |-> expires]

\* the rows of the accounts table for the user and the provider 'strava':
\* none, or the tokens of the sign-in with and without a refresh token and
\* an expiry time
StoredAccounts ==
    {NoAccount} \cup
    {Account(1, refresh, expires) : refresh \in {0, 1},
                                    expires \in {0, 1800, 7200}}

NoTokens == [access_token |-> 0, refresh_token |-> 0, expires_at |-> 0]

Null == [has |-> FALSE, token |-> 0]

Token(t) == [has |-> TRUE, token |-> t]

TokenIdle ==
    /\ tokenPc = [c \in Callers |-> "off"]
    /\ account = NoAccount
    /\ now = 0
    /\ stravaAccount = [c \in Callers |-> NoAccount]
    /\ refreshedTokens = [c \in Callers |-> NoTokens]
    /\ tokenResult = [c \in Callers |-> Null]
    /\ sent = <<>>
    /\ issued = 1

TokenInit ==
    /\ tokenPc = [c \in Callers |-> "called"]
    /\ account \in StoredAccounts
    /\ now \in Clocks
    /\ stravaAccount = [c \in Callers |-> NoAccount]
    /\ refreshedTokens = [c \in Callers |-> NoTokens]
    /\ tokenResult = [c \in Callers |-> Null]
    /\ sent = <<>>
    /\ issued = 1

\* if (expiresAt) { ... if (timeUntilExpiry < oneHour)
needsRefresh(row, clock) ==
    row.expires_at # 0 /\ row.expires_at - clock < OneHour

\* what getStravaAccessToken returns without a refresh, for the row read
storedToken(row) ==
    IF ~row.exists THEN Null ELSE Token(row.access_token)

\* the select of the account row returns; the request goes on to its return
\* or to the fetch of refreshStravaToken with the refresh token of the row
SelectAccount ==
    \E c \in Callers :
        /\ tokenPc[c] = "called"
        /\ stravaAccount' = [stravaAccount EXCEPT ![c] = account]
        /\ IF account.exists /\ needsRefresh(account, now)
           THEN IF account.refresh_token = 0
                THEN /\ tokenPc' = [tokenPc EXCEPT ![c] = "returned"]
                     /\ tokenResult' = [tokenResult EXCEPT ![c] = Null]
                     /\ UNCHANGED sent
                ELSE /\ tokenPc' = [tokenPc EXCEPT ![c] = "fetching"]
                     /\ sent' = Append(sent, account.refresh_token)
                     /\ UNCHANGED tokenResult
           ELSE /\ tokenPc' = [tokenPc EXCEPT ![c] = "returned"]
                /\ tokenResult' = [tokenResult EXCEPT ![c] = storedToken(account)]
                /\ UNCHANGED sent
        /\ UNCHANGED <<account, now, refreshedTokens, issued>>
        /\ UNCHANGED notToken

\* the provider answers with new tokens; the request sends the update of the
\* row
ProviderIssues ==
    \E c \in Callers :
        /\ tokenPc[c] = "fetching"
        /\ issued' = issued + 1
        /\ refreshedTokens' =
               [refreshedTokens EXCEPT ![c] =
                   [access_token |-> issued + 1, refresh_token |-> issued + 1,
                    expires_at |-> now + ExpiresIn]]
        /\ tokenPc' = [tokenPc EXCEPT ![c] = "updating"]
        /\ UNCHANGED <<account, now, stravaAccount, tokenResult, sent>>
        /\ UNCHANGED notToken

\* the provider answers with an error (!response.ok) or the fetch fails:
\* refreshStravaToken throws and getStravaAccessToken returns null
ProviderRefuses ==
    \E c \in Callers :
        /\ tokenPc[c] = "fetching"
        /\ tokenPc' = [tokenPc EXCEPT ![c] = "returned"]
        /\ tokenResult' = [tokenResult EXCEPT ![c] = Null]
        /\ UNCHANGED <<account, now, stravaAccount, refreshedTokens, sent,
                       issued>>
        /\ UNCHANGED notToken

\* the update of the row is done; the request returns the new access token
UpdateAccount ==
    \E c \in Callers :
        /\ tokenPc[c] = "updating"
        /\ account' = [account EXCEPT
                          !.access_token = refreshedTokens[c].access_token,
                          !.refresh_token = refreshedTokens[c].refresh_token,
                          !.expires_at = refreshedTokens[c].expires_at]
        /\ tokenPc' = [tokenPc EXCEPT ![c] = "returned"]
        /\ tokenResult' =
               [tokenResult EXCEPT ![c] = Token(refreshedTokens[c].access_token)]
        /\ UNCHANGED <<now, stravaAccount, refreshedTokens, sent, issued>>
        /\ UNCHANGED notToken

TokenNext ==
    \/ SelectAccount
    \/ ProviderIssues
    \/ ProviderRefuses
    \/ UpdateAccount

----------------------------------------------------------------------------
(* The vertex colours of AdaptiveTerrainSurface.  A colour is the triple   *)
(* of its channels in units of 1 / 255; the colours of colorArray are in   *)
(* units of 1 / 2550, so that a blend with the weight 0.6 is exact.  The   *)
(* shaded colour of a vertex (setHSL of the base hue with the lightness    *)
(* and saturation of its altitude and slope) is given with the vertex.     *)

\* new Color("#A0522D")
trailColor == <<160, 82, 45>>

\* color = "#4ade80"
BaseColor == <<74, 222, 128>>

\* shaded colours of a vertex: two greens of the base hue, and the colour
\* of the trail
ShadedColors == {<<63, 189, 109>>, <<40, 120, 70>>, trailColor}

\* Color.lerp(color, alpha) for alpha = num / den, in units of 1 / den
lerp(this, color, num, den) ==
    [ch \in 1..3 |-> this[ch] * den + (color[ch] - this[ch]) * num]

\* the altitudes of the first, second and third dense point
VertexHeights == <<0, 4, 0>>

\* positions of dense points: on the track y = 0, beside it, and midway
\* between the tracks y = 0 and y = 50
VertexPlaces == {<<10, 0>>, <<20, 3>>, <<20, 4>>, <<30, 25>>, <<5, 50>>}

ShadedVertices ==
    {[x |-> pl[1], y |-> pl[2], shaded |-> sh] :
        pl \in VertexPlaces, sh \in ShadedColors}

\* projectedActivities: missing, empty, two parallel tracks 50 apart, a
\* track of one point and a track whose segment has no length
NoTrackList == [has |-> FALSE, tracks |-> <<>>]

TrailLists ==
    {NoTrackList,
     [has |-> TRUE, tracks |-> <<>>],
     [has |-> TRUE,
      tracks |-> <<<<Pt(0, 0), Pt(40, 0)>>, <<Pt(0, 50), Pt(40, 50)>>>>],
     [has |-> TRUE, tracks |-> <<<<Pt(20, 3)>>>>],
     [has |-> TRUE, tracks |-> <<<<Pt(20, 4), Pt(20, 4)>>>>]}

\* maxEdgeLength: missing, or 40 (a highlight radius of 3)
ShadeEdgeChoices == {NoMaxEdge, [has |-> TRUE, value |-> 40]}

\* r = (maxEdgeLength ?? Math.sqrt(denom) + 1) * 0.075 as the fraction
\* n / 40, for an altitude range that is a square
highlightRadius(mel, span) ==
    IF mel.has THEN [n |-> 3 * mel.value, d |-> 40]
    ELSE [n |-> 3 * (isqrt(span) + 1), d |-> 40]

\* dx * dx + dy * dy <= r2 for the point of the segment p0 p1 closest to v
withinRadius(v, p0, p1, r) ==
    LET sx == p1.x - p0.x
        sy == p1.y - p0.y
        wx == v.x - p0.x
        wy == v.y - p0.y
        ss == sx * sx + sy * sy
        dot == wx * sx + wy * sy
    \* the squares of the distances are whole numbers (over ss in the last
    \* case), so d2 <= r2 is d2 <= floor(r2)
    IN  IF ss = 0 \/ dot <= 0
        THEN wx * wx + wy * wy <= (r.n * r.n) \div (r.d * r.d)
        ELSE IF dot >= ss
        THEN (v.x - p1.x) * (v.x - p1.x) + (v.y - p1.y) * (v.y - p1.y)
                 <= (r.n * r.n) \div (r.d * r.d)
        ELSE (wx * wx + wy * wy) * ss - dot * dot
                 <= (r.n * r.n * ss) \div (r.d * r.d)

\* onTrail of the loop over the activities and their segments
onTrail(v, trails, r) ==
    \E a \in 1..Len(trails) :
        \E k \in 1..(Len(trails[a]) - 1) :
            withinRadius(v, trails[a][k], trails[a][k + 1], r)

\* trailColors of a vertex: baseCol.clone().lerp(trailColor, onTrail ? 1 : 0)
trailMix(v, trails, r) ==
    lerp(BaseColor, trailColor, IF onTrail(v, trails, r) THEN 1 ELSE 0, 1)

\* the colour of colorArray for a vertex, in units of 1 / 2550
vertexColor(v, list, r) ==
    IF list.has /\ Len(list.tracks) > 0
    THEN lerp(v.shaded, trailMix(v, list.tracks, r), 6, 10)
    ELSE lerp(v.shaded, v.shaded, 0, 10)

altitudeRange(pts) ==
    SetMax({VertexHeights[i] : i \in 1..Len(pts)})
        - SetMin({VertexHeights[i] : i \in 1..Len(pts)})

\* the colour attribute of the geometry memo
vertexColors(pts, list, mel) ==
    IF Len(pts) < 3 THEN <<>>
    ELSE [i \in 1..Len(pts) |->
             vertexColor(pts[i], list,
                         highlightRadius(mel, altitudeRange(pts)))]

NoShadeProps ==
    [densePoints |-> <<>>, projectedActivities |-> NoTrackList,
     maxEdgeLength |-> NoMaxEdge]

ShadeIdle ==
    /\ shadePc = "off"
    /\ shadeProps = NoShadeProps
    /\ colorArray = <<>>

ShadeInit ==
    /\ shadePc = "props"
    /\ \E a, b \in ShadedVertices, c \in {v \in ShadedVertices : v.x >= 20},
          list \in TrailLists, mel \in ShadeEdgeChoices :
          shadeProps = [densePoints |-> <<a, b, c>>,
                        projectedActivities |-> list, maxEdgeLength |-> mel]
    /\ colorArray = <<>>

\* the useMemo of the geometry, for its colour attribute
ColourVertices ==
    /\ shadePc = "props"
    /\ colorArray' = vertexColors(shadeProps.densePoints,
                                  shadeProps.projectedActivities,
                                  shadeProps.maxEdgeLength)
    /\ shadePc' = "coloured"
    /\ UNCHANGED shadeProps
    /\ UNCHANGED notShade

ShadeNext ==
    \/ ColourVertices

InitPolyline ==
    PolyInit /\ ProjIdle /\ SpIdle /\ DensifyIdle /\ MeshIdle /\ GridIdle /\ BBoxIdle /\ MapIdle /\ FlightIdle /\ PageIdle /\ TokenIdle /\ ShadeIdle

InitProjection ==
    ProjInit /\ PolyIdle /\ SpIdle /\ DensifyIdle /\ MeshIdle /\ GridIdle /\ BBoxIdle /\ MapIdle /\ FlightIdle /\ PageIdle /\ TokenIdle /\ ShadeIdle

InitSpatial ==
    SpInit /\ PolyIdle /\ ProjIdle /\ DensifyIdle /\ MeshIdle /\ GridIdle /\ BBoxIdle /\ MapIdle /\ FlightIdle /\ PageIdle /\ TokenIdle /\ ShadeIdle

InitDensify ==
    DensifyInit /\ PolyIdle /\ ProjIdle /\ SpIdle /\ MeshIdle /\ GridIdle /\ BBoxIdle /\ MapIdle /\ FlightIdle /\ PageIdle /\ TokenIdle /\ ShadeIdle

InitMesh ==
    MeshInit /\ PolyIdle /\ ProjIdle /\ SpIdle /\ DensifyIdle /\ GridIdle /\ BBoxIdle /\ MapIdle /\ FlightIdle /\ PageIdle /\ TokenIdle /\ ShadeIdle

InitGrid ==
    GridInit /\ PolyIdle /\ ProjIdle /\ SpIdle /\ DensifyIdle /\ MeshIdle /\ BBoxIdle /\ MapIdle /\ FlightIdle /\ PageIdle /\ TokenIdle /\ ShadeIdle

InitBBox ==
    BBoxInit /\ PolyIdle /\ ProjIdle /\ SpIdle /\ DensifyIdle /\ MeshIdle /\ GridIdle /\ MapIdle /\ FlightIdle /\ PageIdle /\ TokenIdle /\ ShadeIdle

InitMap ==
    MapInit /\ PolyIdle /\ ProjIdle /\ SpIdle /\ DensifyIdle /\ MeshIdle /\ GridIdle /\ BBoxIdle /\ FlightIdle /\ PageIdle /\ TokenIdle /\ ShadeIdle

InitFlight ==
    FlightInit /\ PolyIdle /\ ProjIdle /\ SpIdle /\ DensifyIdle /\ MeshIdle /\ GridIdle /\ BBoxIdle /\ PageIdle /\ TokenIdle /\ ShadeIdle

InitPage ==
    PageInit /\ PolyIdle /\ ProjIdle /\ SpIdle /\ DensifyIdle /\ MeshIdle /\ GridIdle /\ BBoxIdle /\ MapIdle /\ FlightIdle /\ TokenIdle /\ ShadeIdle

InitToken ==
    TokenInit /\ PolyIdle /\ ProjIdle /\ SpIdle /\ DensifyIdle /\ MeshIdle /\ GridIdle /\ BBoxIdle /\ MapIdle /\ FlightIdle /\ PageIdle /\ ShadeIdle

InitShade ==
    ShadeInit /\ PolyIdle /\ ProjIdle /\ SpIdle /\ DensifyIdle /\ MeshIdle /\ GridIdle /\ BBoxIdle /\ MapIdle /\ FlightIdle /\ PageIdle /\ TokenIdle

SpecPolyline == InitPolyline /\ [][PolyNext]_vars

SpecProjection == InitProjection /\ [][ProjNext]_vars

SpecSpatial == InitSpatial /\ [][SpNext]_vars

SpecDensify == InitDensify /\ [][DensifyNext]_vars

SpecMesh == InitMesh /\ [][MeshNext]_vars

SpecGrid == InitGrid /\ [][GridNext]_vars

SpecBBox == InitBBox /\ [][BBoxNext]_vars

SpecMap == InitMap /\ [][MapNext]_vars

SpecFlight == InitFlight /\ [][FlightNext]_vars

SpecPage == InitPage /\ [][PageNext]_vars

\* the queries settle: a request that has been sent returns or fails; the
\* clicks of the user and the refetch of a failed query need not happen
SpecPageLive ==
    InitPage /\ [][PageNext]_vars
        /\ WF_vars(LoadList) /\ WF_vars(SettleActivity) /\ WF_vars(SettleStreams)

SpecToken == InitToken /\ [][TokenNext]_vars

SpecShade == InitShade /\ [][ShadeNext]_vars

----------------------------------------------------------------------------
\* C1: densify never rejects: for every track set, density and method key
\* the call is fulfilled, and if the selected method's implementation throws
\* the value is the interpolation method's result for the same inputs
C1_DensifyNeverRejects ==
    densifyPc = "settled" =>
        /\ outcome.status = "fulfilled"
        /\ selectedRun(densifyArgs.method, densifyArgs.projectedActivities,
                       densifyArgs.density).threw =>
              outcome.value =
                  [by |-> "interpolation",
                   projectedActivities |-> densifyArgs.projectedActivities,
                   density |-> densifyArgs.density]

\* C2: decodePolyline returns a point sequence for every string, and for a
\* malformed or truncated encoding that sequence is empty
C2_MalformedDecodesToEmpty ==
    (polyPc = "decoded" /\ ~WellFormed(encoded)) => decoded = <<>>

\* C3: encoding a route and decoding it with the hand-written decodePolyline
\* gives back a sequence of the same length whose coordinates are within one
\* unit (1e-5 degree) of the originals
C3_RoundTrip ==
    (polyPc = "decoded" /\ origin = "route" /\ decoder = "handwritten") =>
        /\ Len(decoded) = Len(route)
        /\ \A i \in 1..Len(route) :
              /\ Abs(decoded[i].lat - route[i].lat) <= 1
              /\ Abs(decoded[i].lng - route[i].lng) <= 1

\* the tracks that have at least one route point, with their ids
hasRoute(entry) == Len(getActivityRouteData(entry.activity)) > 0

expectedTracks(acts) == SelectSeq(withIds(acts), hasRoute)

\* C4: projectActivities returns one projected track for every input track
\* whose route data has at least one point and none for the others, in input
\* order, each with the points of its route data in the recorded order
C4_OneTrackPerRoute ==
    projPc = "rendered" =>
        LET expected == expectedTracks(activities)
        IN  /\ Len(projectedActivities) = Len(expected)
            /\ \A i \in 1..Len(expected) :
                  LET rd == getActivityRouteData(expected[i].activity)
                      pa == projectedActivities[i]
                  IN  /\ pa.id = expected[i].id
                      /\ Len(pa.points) = Len(rd)
                      /\ \A k \in 1..Len(rd) :
                            /\ pa.points[k].lat = rd[k].lat
                            /\ pa.points[k].lng = rd[k].lng

latSpan(pts) ==
    LET lats == {pts[i].lat : i \in 1..Len(pts)}
    IN  SetMax(lats) - SetMin(lats)

lngSpan(pts) ==
    LET lngs == {pts[i].lng : i \in 1..Len(pts)}
    IN  SetMax(lngs) - SetMin(lngs)

Degenerate(acts) ==
    LET pts == allRoutePoints(acts)
    IN  Len(pts) > 0 /\ (latSpan(pts) = 0 \/ lngSpan(pts) = 0)

NonDegenerate(acts) ==
    LET pts == allRoutePoints(acts)
    IN  Len(pts) > 0 /\ latSpan(pts) > 0 /\ lngSpan(pts) > 0

\* C5: when the route points have zero span in latitude or in longitude,
\* createProjection returns a projection with a finite non-zero scale and a
\* finite translate
C5_DegenerateExtentUsable ==
    (projPc = "rendered" /\ Degenerate(activities)) =>
        /\ projection.sd # 0
        /\ projection.sn # 0
        /\ projection.od # 0

\* C6: for a track set with non-zero span in both axes and a viewport with
\* positive width and height, the fitted extent's pixel rectangle is centred
\* at (width / 2, height / 2), the larger of pixelWidth / width and
\* pixelHeight / height is 0.95, and every projected track point lies in
\* [0, width] x [0, height]
C6_MeasureThenFit ==
    (projPc = "rendered" /\ NonDegenerate(activities)
        /\ width > 0 /\ height > 0) =>
        LET b == unitBounds(allRoutePoints(activities))
            lo == applyProjection(projection, [lng |-> b.x0, lat |-> 0 - b.y1])
            hi == applyProjection(projection, [lng |-> b.x1, lat |-> 0 - b.y0])
            d == projection.od
            pw == hi.xn - lo.xn
            ph == Abs(hi.yn - lo.yn)
        IN  /\ d > 0
            /\ lo.xn + hi.xn = width * d
            /\ lo.yn + hi.yn = height * d
            /\ 20 * pw <= 19 * d * width
            /\ 20 * ph <= 19 * d * height
            /\ (20 * pw = 19 * d * width \/ 20 * ph = 19 * d * height)
            /\ \A i \in 1..Len(projectedActivities) :
                  \A k \in 1..Len(projectedActivities[i].points) :
                      LET p == projectedActivities[i].points[k]
                      IN  /\ p.d = d
                          /\ 0 <= p.xn /\ p.xn <= width * d
                          /\ 0 <= p.yn /\ p.yn <= height * d

\* a fitted non-degenerate extent with two projected tracks, one of which
\* touches the 0.95 frame in x and not in y
C6_Witness ==
    /\ projPc = "rendered"
    /\ NonDegenerate(activities)
    /\ Len(projectedActivities) = 2
    /\ \E i \in 1..2 : \E k \in 1..Len(projectedActivities[i].points) :
          LET p == projectedActivities[i].points[k]
          IN  /\ 40 * p.xn = 39 * width * p.d
              /\ 40 * p.yn < 39 * height * p.d

\* the brute-force scan: the points of all tracks within the circle
bruteForcePoints(acts, x, y, radius) ==
    UNION {{[x |-> acts[a].points[i].x, y |-> acts[a].points[i].y,
             activityId |-> a, pointIndex |-> i - 1] :
               i \in {j \in 1..Len(acts[a].points) :
                        withinR2(acts[a].points[j].x - x,
                                 acts[a].points[j].y - y, radius)}} :
           a \in 1..Len(acts)}

\* C7: for every finite radius r >= 0, queryPointsWithinRadius returns
\* exactly the indexed points p with (p.x-x)^2 + (p.y-y)^2 <= r^2, the set a
\* brute-force scan over all points of all tracks finds
C7_RadiusQueryExact ==
    (spPc = "answered" /\ query.kind = "points" /\ query.radius >= 0) =>
        results = bruteForcePoints(tracks, query.x, query.y, query.radius)

\* the squared distance from (x, y) to the segment a-b is at most r^2, by
\* the end points and the cross product
segmentWithin(a, b, x, y, radius) ==
    LET ux == b.x - a.x
        uy == b.y - a.y
        vx == x - a.x
        vy == y - a.y
        len2 == ux * ux + uy * uy
        dot == vx * ux + vy * uy
        cross == vx * uy - vy * ux
    IN  IF dot <= 0 THEN vx * vx + vy * vy <= radius * radius
        ELSE IF dot >= len2
        THEN (x - b.x) * (x - b.x) + (y - b.y) * (y - b.y) <= radius * radius
        ELSE cross * cross <= radius * radius * len2

\* the consecutive pairs <<track, position>> of the tracks
consecutivePairs(acts) ==
    UNION {{<<a, i>> : i \in {j \in 1..Len(acts[a].points) :
                                j + 1 <= Len(acts[a].points)}} :
           a \in 1..Len(acts)}

pairWithin(acts, pr, x, y, radius) ==
    segmentWithin(acts[pr[1]].points[pr[2]], acts[pr[1]].points[pr[2] + 1],
                  x, y, radius)

\* the index holds exactly one segment per consecutive pair per track
oneSegmentPerPair(acts, index) ==
    /\ Len(index.items) = Cardinality(consecutivePairs(acts))
    /\ \A pr \in consecutivePairs(acts) :
          Cardinality({i \in 1..Len(index.items) :
              /\ index.items[i].activityId = pr[1]
              /\ index.items[i].pointStartIndex = pr[2] - 1
              /\ index.items[i].pointEndIndex = pr[2]
              /\ index.items[i].x0 = acts[pr[1]].points[pr[2]].x
              /\ index.items[i].y0 = acts[pr[1]].points[pr[2]].y
              /\ index.items[i].x1 = acts[pr[1]].points[pr[2] + 1].x
              /\ index.items[i].y1 = acts[pr[1]].points[pr[2] + 1].y}) = 1

\* the rectangle query discards no segment that is within distance r
noneDiscarded(index, x, y, radius) ==
    \A i \in 1..Len(index.items) :
        segmentWithin(Pt(index.items[i].x0, index.items[i].y0),
                      Pt(index.items[i].x1, index.items[i].y1), x, y, radius)
            => i \in querySegmentsNear(index, x, y, radius)

\* C8 as stated: for every radius, isPointNearAnySegment is true if and only
\* if some consecutive pair of points of one track is within distance r of
\* (x, y); the index holds one segment per consecutive pair per track; the
\* rectangle query discards no segment within distance r
C8_NearIffSomePair ==
    (spPc = "answered" /\ query.kind = "near") =>
        /\ near <=> \E pr \in consecutivePairs(tracks) :
                       pairWithin(tracks, pr, query.x, query.y, query.radius)
        /\ oneSegmentPerPair(tracks, segIndex)
        /\ noneDiscarded(segIndex, query.x, query.y, query.radius)

\* C8 amended: the same for every finite radius r > 0, and the answer is
\* false for r <= 0; the index holds one segment per consecutive pair per
\* track whatever the radius
C8_NearIffSomePairPositiveRadius ==
    (spPc = "answered" /\ query.kind = "near") =>
        /\ oneSegmentPerPair(tracks, segIndex)
        /\ query.radius <= 0 => ~near
        /\ query.radius > 0 =>
              /\ near <=> \E pr \in consecutivePairs(tracks) :
                     pairWithin(tracks, pr, query.x, query.y, query.radius)
              /\ noneDiscarded(segIndex, query.x, query.y, query.radius)

\* a query that is near a segment of the second of two tracks and which the
\* rectangle filter leaves with a candidate that is too far
C8_Witness ==
    /\ spPc = "answered"
    /\ query.kind = "near"
    /\ query.radius > 0
    /\ near
    /\ Len(tracks) = 2
    /\ ~\E pr \in consecutivePairs(tracks) :
          pr[1] = 1 /\ pairWithin(tracks, pr, query.x, query.y, query.radius)
    /\ \E i \in querySegmentsNear(segIndex, query.x, query.y, query.radius) :
          ~candidateNear(segIndex.items[i], query.x, query.y, query.radius)

\* C9: in every mesh built from at least 3 dense points, with or without
\* mapBounds, every index of the triangle index list is at least 0 and less
\* than the number of vertices in the position buffer
C9_IndicesValid ==
    (meshPc = "built" /\ Len(densePoints) >= 3) =>
        \A i \in 1..Len(geometry.index) :
            0 <= geometry.index[i] /\ geometry.index[i] < geometry.vertexCount

\* the triangles of the index list whose three vertices exist
properTriangles(geom) ==
    {k \in 0..(Len(geom.index) \div 3 - 1) :
        \A j \in 1..3 : /\ 0 <= geom.index[3 * k + j]
                        /\ geom.index[3 * k + j] < geom.vertexCount}

\* C10: no triangle of the index list of a built mesh, Delaunay or rim, has
\* an edge longer in the x,y plane than maxEdgeLength (configured, or
\* estimated from the point spacing)
C10_EdgesWithinMaxEdge ==
    (meshPc = "built" /\ Len(densePoints) >= 3) =>
        LET m == maxEdge2(densePoints, maxEdgeLength)
            v(k, j) == geometry.position[geometry.index[3 * k + j] + 1]
        IN  \A k \in properTriangles(geometry) :
                /\ dist2(v(k, 1), v(k, 2)) * m.d <= m.n
                /\ dist2(v(k, 2), v(k, 3)) * m.d <= m.n
                /\ dist2(v(k, 3), v(k, 1)) * m.d <= m.n

\* C11: for every track set, density and shape of the sampled extent, the
\* number of grid cells a densification method evaluates stays about the
\* cap of 200,000 samples (here: within twice the cap)
C11_SampleCap ==
    gridPc = "sized" => gridResult.grid.cells <= 2 * MaxSamples

\* the projected points of the pass with the route point each was made from
projectedWithSource ==
    UNION {{[point |-> projectedActivities[t].points[k],
             from |-> getActivityRouteData(
                          activities[projectedActivities[t].id])[k]] :
               k \in 1..Len(projectedActivities[t].points)} :
           t \in 1..Len(projectedActivities)}

\* C13: after a projection pass every projected point has a height z with
\* 0 <= z <= 100, equal to 100 * (altitude - min) / (max - min) for a point
\* that carries altitude and to 0 for a point that does not, whatever the
\* altitudes of the pass are (all equal included)
C13_HeightsNormalised ==
    projPc = "rendered" =>
        \A e \in projectedWithSource :
            /\ e.point.zd > 0
            /\ 0 <= e.point.zn
            /\ e.point.zn <= 100 * e.point.zd
            /\ ~e.from.hasAlt => e.point.zn = 0
            /\ e.from.hasAlt =>
                   e.point.zn * (altitudePass(activities).maxAltitude
                                 - altitudePass(activities).minAltitude)
                   = 100 * (e.from.alt - altitudePass(activities).minAltitude)
                     * e.point.zd

\* the raw extrema of the decoded points, widened by a tenth of the span
widenedExtrema(pts) ==
    LET lats == {pts[i].lat : i \in 1..Len(pts)}
        lngs == {pts[i].lng : i \in 1..Len(pts)}
    IN  [minLat |-> 10 * SetMin(lats) - (SetMax(lats) - SetMin(lats)),
         maxLat |-> 10 * SetMax(lats) + (SetMax(lats) - SetMin(lats)),
         minLng |-> 10 * SetMin(lngs) - (SetMax(lngs) - SetMin(lngs)),
         maxLng |-> 10 * SetMax(lngs) + (SetMax(lngs) - SetMin(lngs))]

\* C18: calculateBoundingBox returns the whole-world rectangle when no
\* activity yields a decoded point (the empty activity list included), and
\* otherwise the raw extrema widened by 10% of the span on each side, with
\* min <= max on both axes
C18_BoundingBox ==
    bboxPc = "done" =>
        /\ boundingBox.minLat <= boundingBox.maxLat
        /\ boundingBox.minLng <= boundingBox.maxLng
        /\ IF Len(boundingBoxPoints(bboxActivities)) = 0
           THEN boundingBox = WorldBox
           ELSE boundingBox = widenedExtrema(boundingBoxPoints(bboxActivities))

\* the altitudes of the samples within the search radius of a dense point
altitudesNear(samples, dens, p) ==
    {samples[id].altitude : id \in
        {i \in 1..Len(samples) :
            (samples[i].x * dens - p.x) * (samples[i].x * dens - p.x)
            + (samples[i].y * dens - p.y) * (samples[i].y * dens - p.y)
            <= SearchRadius * SearchRadius * dens * dens}}

mlsRan == gridPc = "ran" /\ gridInput.method = "mls"

\* C20: every dense point of the MLS method lies at a grid point that has a
\* sample within the search radius (zero-weight cells produce no point), and
\* its z lies between the least and the greatest altitude of those samples;
\* when all samples have the altitude c, every z is c
C20_MlsWithinLocalRange ==
    mlsRan =>
        LET samples == altitudeSamples(gridInput.projectedActivities)
            out == gridResult.result
        IN  \A k \in 1..Len(out.densePoints) :
                LET p == out.densePoints[k]
                    alts == altitudesNear(samples, out.perPixel, p)
                IN  /\ alts # {}
                    /\ p.zd > 0
                    /\ SetMin(alts) * p.zd <= p.zn
                    /\ p.zn <= SetMax(alts) * p.zd
                    /\ \A c \in 0..9 :
                          (\A i \in 1..Len(samples) : samples[i].altitude = c)
                              => p.zn = c * p.zd

\* an MLS run that skipped a cell and mixed samples of different altitudes
C20_Witness ==
    /\ mlsRan
    /\ LET acts == gridInput.projectedActivities
           out == gridResult.result
       IN  /\ Len(out.densePoints) > 0
           /\ Len(out.densePoints) < mlsGrid(acts, gridInput.density).cells
           /\ \E k \in 1..Len(out.densePoints) :
                 LET p == out.densePoints[k]
                     alts == altitudesNear(altitudeSamples(acts),
                                           out.perPixel, p)
                 IN  /\ SetMin(alts) * p.zd < p.zn
                     /\ p.zn < SetMax(alts) * p.zd

\* the track the projector makes of the altitude-less polyline
polylineTrack == projectedTracks(<<PolylineOnly>>, ViewWidth, ViewHeight)[1]

\* a track carries altitude when a point of it has one that was measured:
\* not a point of undefined altitude, and not the projector's point of a
\* decoded polyline
carriesAltitude(track) ==
    /\ track # polylineTrack
    /\ \E k \in 1..Len(track.points) : track.points[k].hasAlt

\* C16: every method returns an empty list of dense points for the empty
\* track list, with the bounds left at their Infinity sentinels, and for
\* tracks none of which carries altitude, among them the tracks the
\* projector makes of altitude-less polylines
C16_NoAltitudeNoOutput ==
    gridPc = "ran" =>
        LET acts == gridInput.projectedActivities
            out == gridResult.result
        IN  /\ Len(acts) = 0 =>
                  /\ out.densePoints = <<>>
                  /\ ~out.bounds.xyFinite
                  /\ ~out.bounds.zFinite
            /\ (\A t \in 1..Len(acts) : ~carriesAltitude(acts[t]))
                  => out.densePoints = <<>>

\* C17: the i-th track returned by a projection pass (counted from 0 among
\* the returned tracks) has the colour i mod 10 of the palette
C17_ColourByRetainedIndex ==
    projPc = "rendered" =>
        \A i \in 1..Len(projectedActivities) :
            projectedActivities[i].color = (i - 1) % PaletteSize

\* the stream of an activity has at least one sample
streamAvailable(activity) ==
    activity.detailedPoints.has /\ Len(activity.detailedPoints.points) > 0

\* the route the claim describes: the stream's points when the stream has a
\* sample, and the decoded polyline otherwise
routeBySource(activity) ==
    IF streamAvailable(activity)
    THEN [i \in 1..Len(activity.detailedPoints.points) |->
            [lat |-> activity.detailedPoints.points[i].lat,
             lng |-> activity.detailedPoints.points[i].lng,
             hasAlt |-> TRUE,
             alt |-> activity.detailedPoints.points[i].altitude]]
    ELSE IF Truthy(polylineData(activity))
    THEN decodePolylinePoints(polylineData(activity).str)
    ELSE <<>>

\* C19: getActivityRouteData returns the stream's points when a stream with
\* at least one sample is available and the decoded polyline's points
\* otherwise, so the state of the stream never empties the route of an
\* activity whose polyline decodes to points
C19_RouteSource ==
    projPc = "rendered" =>
        \A i \in 1..Len(activities) :
            getActivityRouteData(activities[i]) = routeBySource(activities[i])

\* a sample of a selected activity carries a measured altitude: the activity
\* has streams, and a position of the latlng stream has a value in the
\* altitude stream
measuredAltitude(raw) ==
    \E i \in 1..Len(raw) :
        /\ raw[i].streams.has
        /\ raw[i].streams.latlng.has
        /\ raw[i].streams.altitude.has
        /\ \E index \in 1..Len(raw[i].streams.latlng.data) :
              index <= Len(raw[i].streams.altitude.data)

\* C15: hasAltitudeData of the selected activities is true exactly when a
\* sample of a selected activity carries a measured altitude (a 0 filled in
\* for a missing altitude stream does not count), and when it is false every
\* dense point shown for the selection has height 0
C15_MeasuredAltitudeOnly ==
    mapPc = "mounted" =>
        LET ab == calculateAltitudeBounds(activitiesWithStreams(mapActivities))
            shown == denseOf(shownDensePoints)
        IN  /\ ab.hasAltitudeData <=> measuredAltitude(mapActivities)
            /\ (~ab.hasAltitudeData /\ shownDensePoints.of = mapActivities)
                   => \A k \in 1..Len(shown) : shown[k].zn = 0

\* the height zn * unit / zd of a normalised dense point is a number of
\* 0 .. 100
heightInRange(p) ==
    /\ p.zd > 0
    /\ p.zn >= 0
    /\ p.zn * p.unit <= 100 * p.zd

\* the runs whose normalised list has every height in 0 .. 100 when the
\* selection has altitude data, and every height 0 when it has none
runsInRange ==
    {r \in Runs :
        LET ab == calculateAltitudeBounds(activitiesWithStreams(r[1]))
            made == normalizedDense(r[1], r[2])
        IN  \A k \in 1..Len(made) :
                IF ab.hasAltitudeData THEN heightInRange(made[k])
                ELSE made[k].zn = 0 /\ made[k].zd > 0}

\* C14: every dense point runDensification stored, in densePoints and in the
\* cache, has a height of 0 .. 100 when the selection has altitude data and
\* the height 0 when it has none, whatever tracks the selection mixes
C14_DenseHeightsNormalised ==
    /\ shownDensePoints.has =>
           <<shownDensePoints.of, shownDensePoints.method>> \in runsInRange
    /\ \A c \in cacheBySelection :
           <<c.made.of, c.made.method>> \in runsInRange

\* the list stored for the pair the component is at after a step, as the
\* cache held it before the step
storedForNext ==
    cachedAt(cacheBySelection, selectionKey(mapActivities'), selectedMethodKey')

\* C12: a handler that leaves the terrain shown at a (selection key, method)
\* pair for which a run has stored a list displays the stored list and does
\* not invoke densify, also when the stored list has no dense points
C12_CacheHit ==
    [][(showDenseTerrain' /\ storedForNext.has)
           => (~densifyInvoked' /\ shownDensePoints' = storedForNext)]_vars

\* the square of a step as the fraction n / d
stepSquared(step) ==
    IF step.exact THEN [n |-> step.n * step.n, d |-> step.d * step.d]
    ELSE [n |-> step.n, d |-> step.d]

\* the larger of 1 / density and sqrt(width * height / 200000), by its
\* square, for the density dn / dd
largerStepSquared(dn, dd, w, h) ==
    IF w * h * dn * dn <= MaxSamples * dd * dd
    THEN [n |-> dd * dd, d |-> dn * dn]
    ELSE [n |-> w * h, d |-> MaxSamples]

\* C25: for every positive density, also below 1, and every extent the step
\* computeAdaptiveStep returns is the larger of 1 / density and
\* sqrt(area / 200000)
C25_StepIsLargerOfTwo ==
    gridPc = "stepped" =>
        LET got == stepSquared(gridResult.step)
            want == largerStepSquared(gridInput.dn, gridInput.dd,
                                      gridInput.width, gridInput.height)
        IN  got.n * want.d = want.n * got.d

\* the n-th triangle of the flat index list tris
triangleAt(tris, n) == <<tris[3 * n - 2], tris[3 * n - 1], tris[3 * n]>>

\* the triangles of tris that contain the grid point (gx, gy)
containing(pts, dens, tris, gx, gy) ==
    {n \in 1..(Len(tris) \div 3) :
        interpolateZ(pts, dens, triangleAt(tris, n), gx, gy).has}

\* the altitudes of the three vertices of a triangle
vertexAltitudes(pts, t) == {pts[t[k] + 1].altitude : k \in 1..3}

\* the dense point p has the height interpolated in the triangle t, and the
\* height is within the altitudes of the vertices of t
interpolatedIn(pts, dens, t, p) ==
    /\ interpolateZ(pts, dens, t, p.x, p.y).point = p
    /\ p.zd > 0
    /\ SetMin(vertexAltitudes(pts, t)) * p.zd <= p.zn
    /\ p.zn <= SetMax(vertexAltitudes(pts, t)) * p.zd

\* the dense point p comes from the first of the triangles holding it
fromFirstOf(pts, dens, tris, holding, p) ==
    /\ holding # {}
    /\ interpolatedIn(pts, dens, triangleAt(tris, SetMin(holding)), p)

\* every dense point of dp is the only one of its grid cell and comes from
\* the first triangle containing the cell
dedupedOver(pts, dens, tris, dp) ==
    /\ Cardinality({<<dp[k].x, dp[k].y>> : k \in 1..Len(dp)}) = Len(dp)
    /\ \A k \in 1..Len(dp) :
           fromFirstOf(pts, dens, tris,
                       containing(pts, dens, tris, dp[k].x, dp[k].y), dp[k])

delaunayRan == gridPc = "ran" /\ gridInput.method = "delaunay"

\* C26: delaunayDensification returns at most one dense point per grid cell;
\* a cell lying in several triangles is emitted once, with the height
\* interpolated in the first triangle that contains it, and the height lies
\* between the smallest and the largest altitude of that triangle's vertices
C26_DelaunayDeduplicated ==
    delaunayRan =>
        dedupedOver(altitudeSamples(gridInput.projectedActivities),
                    gridResult.result.perPixel,
                    flatTriangles(delaunayTriangles(
                        altitudeSamples(gridInput.projectedActivities))),
                    gridResult.result.densePoints)

\* a delaunay run has emitted a cell that lies in several triangles, and a
\* height strictly between two altitudes
C26_Witness ==
    /\ delaunayRan
    /\ \E k \in 1..Len(gridResult.result.densePoints) :
          Cardinality(containing(
              altitudeSamples(gridInput.projectedActivities),
              gridResult.result.perPixel,
              flatTriangles(delaunayTriangles(
                  altitudeSamples(gridInput.projectedActivities))),
              gridResult.result.densePoints[k].x,
              gridResult.result.densePoints[k].y)) > 1
    /\ \E k \in 1..Len(gridResult.result.densePoints) :
          LET p == gridResult.result.densePoints[k]
          IN  5 * p.zd < p.zn /\ p.zn < 9 * p.zd


\* {showDenseTerrain && densePoints.length > 0 && (...)}: the dense terrain
\* is on display
terrainDisplayed ==
    /\ mapPc = "mounted"
    /\ showDenseTerrain
    /\ Len(denseOf(shownDensePoints)) > 0

\* C22: whenever the dense terrain is on display, the dense points displayed
\* are those of a run for the current selection key and the selected method,
\* after any selection changes (the empty selection too), method switches
\* and toggles
C22_DisplayedMatchesSelection ==
    terrainDisplayed =>
        /\ selectionKey(shownDensePoints.of) = selectionKey(mapActivities)
        /\ shownDensePoints.method = selectedMethodKey


\* C27: the dense points on display for the current selection key were
\* computed from the activities that are current: after the route data of a
\* selected activity has changed under the same ids, the terrain shown is
\* not the list the cache holds for the selection key from before the change
C27_CacheFollowsTracks ==
    (terrainDisplayed
        /\ selectionKey(shownDensePoints.of) = selectionKey(mapActivities))
        => shownDensePoints.of = mapActivities


\* the (selection key, method) pair of a run
pairOf(r) == <<selectionKey(r.of), r.method>>

ownPoints(id) ==
    Stream(mergeStreamsData(streamsOf(id).latlng, streamsOf(id).altitude))

\* every activity of the list that carries detailed points carries those of
\* the streams requested for its own id
ownStreams(acts) ==
    \A k \in 1..Len(acts) :
        acts[k].detailedPoints.has => acts[k].detailedPoints = ownPoints(acts[k].id)

\* C23: in every state of the getActivity and getActivityStreams queries,
\* whichever of them have returned or failed, the detailed points that
\* useDetailedActivitiesWithStreams attaches to an activity are built from
\* the streams requested for the id of that activity
C23_StreamAttribution ==
    pagePc = "listed" =>
        ownStreams(useDetailedActivitiesWithStreams(activityQueries,
                                                    streamsQueries))


\* the ids of the activities handed to the maps change
selectionChanges == idsOf(filteredActivities') # idsOf(filteredActivities)

\* the activities handed to the maps are the selected ones, in list order
followsSelection ==
    idsOf(filteredActivities') =
        idsOf(filterSelected(useActivities(activityQueries', streamsQueries'),
                             selectedActivities'))

\* C28: once the filtered activities have been set from the first loaded
\* list, the ids in them change only by a click in the activity list
\* (toggle, select all, select none), after which they are the selected ids
\* in list order; an update of the activities data does not change them
C28_SelectionStable ==
    [][/\ (pagePc = "listed" /\ selectionChanges) => pageEvent' = "user"
       /\ (pagePc = "listed" /\ pageEvent' = "user") => followsSelection]_vars

\* the entry for an id in a list of activities
entryOf(acts, id) == acts[CHOOSE k \in 1..Len(acts) : acts[k].id = id]

hasEntry(acts, id) == \E k \in 1..Len(acts) : acts[k].id = id

\* the detailed data of the id (its activity and a stream) has loaded and
\* the activity is handed to the maps
detailLoaded(id) ==
    /\ pagePc = "listed"
    /\ hasEntry(filteredActivities, id)
    /\ entryOf(useActivities(activityQueries, streamsQueries),
               id).detailedPoints.has

\* the maps have the version of the activity that useActivities returns, or
\* the activity is no longer selected
detailShown(id) ==
    hasEntry(filteredActivities, id) =>
        entryOf(filteredActivities, id) =
            entryOf(useActivities(activityQueries, streamsQueries), id)

\* C29: when the detailed data of an activity handed to the maps has loaded,
\* the activities handed to the maps eventually hold the detailed version of
\* it, with no click of the user needed
C29_FreshDataReachesMap ==
    \A id \in {ListedIds[k] : k \in 1..Len(ListedIds)} :
        detailLoaded(id) ~> detailShown(id)


\* no refresh token has been sent to the provider twice
sentOnce == \A j, k \in 1..Len(sent) : sent[j] = sent[k] => j = k

\* the row holds the three values of one provider response, or the values
\* of the sign-in
rowOfOneResponse ==
    account.exists =>
        \/ account \in StoredAccounts
        \/ /\ account.access_token = account.refresh_token
           /\ account.expires_at = now + ExpiresIn
           /\ account.access_token \in 2..issued

\* a request that has read an expiring row and has returned a token has
\* returned the access token of the provider response it got, which is an
\* hour or more from its expiry
resultsValid ==
    \A c \in Callers :
        (tokenPc[c] = "returned" /\ tokenResult[c].has
            /\ needsRefresh(stravaAccount[c], now))
        => /\ tokenResult[c].token = refreshedTokens[c].access_token
           /\ tokenResult[c].token \in 2..issued
           /\ refreshedTokens[c].expires_at - now >= OneHour

\* C30: when requests of one user run getStravaAccessToken concurrently and
\* the stored token is less than an hour from its expiry, every stored
\* refresh token is sent to the provider at most once, the row holds the
\* access token, refresh token and expiry of one provider response, and a
\* request that returns a token returns a valid one
C30_TokenRefresh ==
    /\ sentOnce
    /\ rowOfOneResponse
    /\ resultsValid


\* the distance of the vertex to some segment of the tracks is at most the
\* highlight radius
nearTrail(v) ==
    onTrail(v, shadeProps.projectedActivities.tracks,
            highlightRadius(shadeProps.maxEdgeLength,
                            altitudeRange(shadeProps.densePoints)))

\* 60% of the shaded colour and 40% of the trail colour, in units of 1 / 2550
trailBlend(v) == [ch \in 1..3 |-> 6 * v.shaded[ch] + 4 * trailColor[ch]]

pureShaded(v) == [ch \in 1..3 |-> 10 * v.shaded[ch]]

\* C21: a vertex within the highlight radius of a segment of a track has the
\* colour 60% shaded / 40% trail colour, and every other vertex has the
\* shaded colour with nothing of the trail colour or the base colour in it
C21_VertexColourRule ==
    shadePc = "coloured" =>
        \A i \in 1..Len(colorArray) :
            colorArray[i] =
                IF nearTrail(shadeProps.densePoints[i])
                THEN trailBlend(shadeProps.densePoints[i])
                ELSE pureShaded(shadeProps.densePoints[i])

=============================================================================
